---- MODULE Spec2Model ----
(***************************************************************************)
(* Model of the MCQ row engine: the shuffle service                        *)
(* (src/src/services/shuffle.ts) and the validator                         *)
(* (src/src/services/preferences.ts, validateParsedMcq).                   *)
(*                                                                         *)
(* Row objects live in a heap (a sequence of records, a reference is an    *)
(* index into it); row arrays are sequences of references.  A call starts  *)
(* from the heap that holds the caller's rows, and what it leaves in the   *)
(* heap is what the caller's row objects look like after the call.         *)
(* Array indexes are 1-based here and 0-based in the source.               *)
(***************************************************************************)
EXTENDS Integers, Sequences, FiniteSets, TLC

VARIABLES rows, before, argAfter, op, vres,
          input, answerKeyInput, answerKey, currentView,
          shuffledRows, previewOutput, previewKey, questionsWithoutKeys,
          examOutput, storeAnswerKey, formatSettings, examConfig,
          lockedAt

\* the import text, the answer key text, the last answer key map and the
\* view shown
ui == <<input, answerKeyInput, answerKey, currentView>>

\* the generate view's rows, exam preview and key preview, the questions
\* found without a key, and the store's exam text, answer key lines, format
\* settings and exam configuration, and the locked indexes handed to
\* shuffleArray
gen == <<shuffledRows, previewOutput, previewKey, questionsWithoutKeys,
         examOutput, storeAnswerKey, formatSettings, examConfig, lockedAt>>

vars == <<rows, before, argAfter, op, vres, ui, gen>>

(***************************************************************************)
(* Bounds of the model.                                                    *)
(***************************************************************************)
MaxLen == 4
MaxLocked == 2
MaxKeys == 1
MaxBlocks == 3
MaxAnswers == 6
MaxDocRows == 8

(***************************************************************************)
(* ParsedRow (src/src/types/mcq.ts).                                       *)
(***************************************************************************)
ParsedRowType == {"section", "question", "answer", "empty", "error"}

\* originalNumber of a row that has none, and firstErrorRowId when unset
Undefined == -1

letters == <<"A", "B", "C", "D", "E">>

createRow(id, type, label, text, originalNumber) ==
  [id |-> id, type |-> type, label |-> label, text |-> text,
   isKey |-> FALSE, locked |-> FALSE, originalNumber |-> originalNumber]

(***************************************************************************)
(* Array primitives of the host language, as the code uses them.           *)
(***************************************************************************)
\* array.splice(idx, 1): removes the element at idx, nothing when out of range
SpliceOut(array, idx) ==
  IF idx \in 1..Len(array)
    THEN SubSeq(array, 1, idx - 1) \o SubSeq(array, idx + 1, Len(array))
    ELSE array

\* array.splice(idx, 0, element): inserts before idx, at the end when idx is past it
SpliceIn(array, idx, element) ==
  IF idx > Len(array)
    THEN Append(array, element)
    ELSE SubSeq(array, 1, idx - 1) \o <<element>> \o SubSeq(array, idx, Len(array))

RECURSIVE Flat(_)
\* array.flat(): one level of nesting removed
Flat(arrays) ==
  IF arrays = <<>> THEN <<>> ELSE Head(arrays) \o Flat(Tail(arrays))

\* the locked indexes in the order they were given
KeepOrder(s) == s

RECURSIVE SortAsc(_)
\* [...lockedIndexes].sort((a, b) => a - b)
SortAsc(s) ==
  IF s = <<>> THEN <<>>
  ELSE LET m == CHOOSE x \in {s[i] : i \in 1..Len(s)} :
                  \A y \in {s[i] : i \in 1..Len(s)} : x <= y
           k == CHOOSE i \in 1..Len(s) : s[i] = m
       IN <<m>> \o SortAsc(SpliceOut(s, k))

(***************************************************************************)
(* shuffleArray: Fisher-Yates with locked indexes.  The random draws are   *)
(* a nondeterministic choice, so the operators return the set of arrays    *)
(* the call can leave behind.                                              *)
(***************************************************************************)
RECURSIVE ExtractLocked(_, _)
\* lines 19-24: the elements at the sorted locked indexes, skipping undefined
ExtractLocked(array, sorted) ==
  IF sorted = <<>> THEN <<>>
  ELSE (IF Head(sorted) \in 1..Len(array) THEN <<array[Head(sorted)]>> ELSE <<>>)
       \o ExtractLocked(array, Tail(sorted))

RECURSIVE RemoveLocked(_, _, _)
\* lines 27-32: splice the locked indexes out, last one first
RemoveLocked(array, sorted, i) ==
  IF i < 1 THEN array
  ELSE RemoveLocked(SpliceOut(array, sorted[i]), sorted, i - 1)

SwapAt(array, i, j) ==
  [array EXCEPT ![i] = array[j], ![j] = array[i]]

RECURSIVE FisherYates(_, _)
\* lines 35-43: for i from the last index down to the second, swap with a
\* uniformly drawn j <= i
FisherYates(array, i) ==
  IF i <= 1 THEN {array}
  ELSE UNION {FisherYates(SwapAt(array, i, j), i - 1) : j \in 1..i}

\* a restore that pushes the locked elements instead of splicing them in
RestoreLockedPushed(array, sorted, lockedElements, i) ==
  array \o SubSeq(lockedElements, i, Len(lockedElements))

RECURSIVE RestoreLocked(_, _, _, _)
\* lines 46-51: splice each locked element back at its index, ascending
RestoreLocked(array, sorted, lockedElements, i) ==
  IF i > Len(sorted) THEN array
  ELSE RestoreLocked(
         IF i <= Len(lockedElements)
           THEN SpliceIn(array, sorted[i], lockedElements[i])
           ELSE array,
         sorted, lockedElements, i + 1)

shuffleArray(array, lockedIndexes) ==
  LET sorted == SortAsc(lockedIndexes)
      lockedElements == ExtractLocked(array, sorted)
      unlocked == RemoveLocked(array, sorted, Len(sorted))
  IN {RestoreLocked(s, sorted, lockedElements, 1) :
        s \in FisherYates(unlocked, Len(unlocked))}

(***************************************************************************)
(* Segmentation.  heap is the sequence of row objects, rows a sequence of  *)
(* references into it.                                                     *)
(***************************************************************************)
RECURSIVE SplitSectionsFrom(_, _, _, _)
SplitSectionsFrom(heap, rows_, i, sections) ==
  IF i > Len(rows_) THEN sections
  ELSE LET row == rows_[i]
           n == Len(sections)
       IN SplitSectionsFrom(heap, rows_, i + 1,
            IF heap[row].type = "section" THEN Append(sections, <<row>>)
            ELSE IF n = 0 THEN <<<<row>>>>
            ELSE [sections EXCEPT ![n] = Append(@, row)])

splitIntoSections(heap, rows_) == SplitSectionsFrom(heap, rows_, 1, <<>>)

RECURSIVE SplitQuestionsFrom(_, _, _, _, _)
\* the two forEach loops: a question row opens a block, any other row joins
\* the last block when there are more than minBlocks blocks, and is dropped
\* otherwise
SplitQuestionsFrom(heap, section, i, questions, minBlocks) ==
  IF i > Len(section) THEN questions
  ELSE LET row == section[i]
           n == Len(questions)
       IN SplitQuestionsFrom(heap, section, i + 1,
            IF heap[row].type = "question" THEN Append(questions, <<row>>)
            ELSE IF n > minBlocks THEN [questions EXCEPT ![n] = Append(@, row)]
            ELSE questions,
            minBlocks)

splitSectionIntoQuestions(heap, section) ==
  IF Len(section) > 0 /\ heap[section[1]].type = "section"
    THEN \* header = section.slice(0, 2), the rest from section.slice(2)
         SplitQuestionsFrom(heap, section, 3,
                            <<SubSeq(section, 1, IF Len(section) < 2 THEN Len(section) ELSE 2)>>,
                            1)
    ELSE SplitQuestionsFrom(heap, section, 1, <<>>, 0)

splitIntoSectionsAndQuestions(heap, rows_) ==
  LET sections == splitIntoSections(heap, rows_)
  IN [s \in 1..Len(sections) |-> splitSectionIntoQuestions(heap, sections[s])]

(***************************************************************************)
(* reletterAnswers: rows.map with a letter cursor.  An answer row is       *)
(* replaced by a new object ({ ...row, label }), allocated at the end of   *)
(* the heap; every other row is returned as the same object.               *)
(***************************************************************************)
\* row.label = label: the row object itself is written
assignLabel(heap, row, label) ==
  [heap |-> [heap EXCEPT ![row].label = label], ref |-> row]

\* a new row built from scratch: key and lock flags are not carried over
rebuildRow(heap, row, label) ==
  [heap |-> Append(heap, createRow(heap[row].id, heap[row].type, label,
                                   heap[row].text, heap[row].originalNumber)),
   ref |-> Len(heap) + 1]

\* { ...row, label }: a new object with the fields of row and the new label
spreadRow(heap, row, label) ==
  [heap |-> Append(heap, [heap[row] EXCEPT !.label = label]),
   ref |-> Len(heap) + 1]

RECURSIVE ReletterFrom(_, _, _, _, _)
ReletterFrom(heap, rows_, i, letterIndex, result) ==
  IF i > Len(rows_) THEN [heap |-> heap, rows |-> result]
  ELSE LET row == rows_[i]
       IN IF heap[row].type = "question"
            THEN ReletterFrom(heap, rows_, i + 1, 1, Append(result, row))
          ELSE IF heap[row].type = "answer"
            THEN LET letter == IF letterIndex \in 1..Len(letters)
                                 THEN letters[letterIndex] ELSE "A"
                     newRow == spreadRow(heap, row, letter)
                 IN ReletterFrom(newRow.heap, rows_, i + 1,
                                 letterIndex + 1, Append(result, newRow.ref))
          ELSE ReletterFrom(heap, rows_, i + 1, letterIndex, Append(result, row))

\* a relettering that returns the rows as they are
reletterAnswersSkipped(heap, rows_) == [heap |-> heap, rows |-> rows_]

reletterAnswers(heap, rows_) == ReletterFrom(heap, rows_, 1, 1, <<>>)

(***************************************************************************)
(* The three shuffles.  Each returns the set of [heap, rows] results the   *)
(* random draws allow.                                                     *)
(***************************************************************************)
RECURSIVE Ascending(_)
\* the indexes a forEach pushes, in the order it visits them
Ascending(S) ==
  IF S = {} THEN <<>>
  ELSE LET m == CHOOSE x \in S : \A y \in S : x <= y
       IN <<m>> \o Ascending(S \ {m})

RECURSIVE ForEach(_)
\* one result per element, each drawn from that element's set of results
ForEach(outcomes) ==
  IF outcomes = <<>> THEN {<<>>}
  ELSE {<<h>> \o t : h \in Head(outcomes), t \in ForEach(Tail(outcomes))}

\* a section shuffle that passes no locked indexes
shuffleSectionsUnlocked(heap, rows_) ==
  {[heap |-> heap, rows |-> Flat(s)] :
     s \in shuffleArray(splitIntoSections(heap, rows_), <<>>)}

shuffleSections(heap, rows_) ==
  LET sections == splitIntoSections(heap, rows_)
      lockedIndexes ==
        Ascending({i \in 1..Len(sections) : heap[sections[i][1]].locked})
  IN {[heap |-> heap, rows |-> Flat(s)] : s \in shuffleArray(sections, lockedIndexes)}

\* lines 200-213: the locked indexes of one section's blocks
QuestionLocks(heap, section) ==
  Ascending({i \in 1..Len(section) :
               \/ i = 1 /\ heap[section[i][1]].type = "section"
               \/ heap[section[i][1]].locked})

shuffleQuestions(heap, rows_) ==
  LET sectionsByQuestion == splitIntoSectionsAndQuestions(heap, rows_)
      shuffled ==
        ForEach([s \in 1..Len(sectionsByQuestion) |->
                   shuffleArray(sectionsByQuestion[s],
                                QuestionLocks(heap, sectionsByQuestion[s]))])
  IN {[heap |-> heap, rows |-> Flat(Flat(s))] : s \in shuffled}

\* the question row and the locked rows, the last row left free to move
AnswerLocksLastFree(heap, questionBlock) ==
  <<1>> \o Ascending({i \in 2..Len(questionBlock) : heap[questionBlock[i]].locked})

\* lines 236-245: the question row, the last row, then the locked rows between
AnswerLocks(heap, questionBlock) ==
  LET questionRow == 1
      emptyRow == Len(questionBlock)
  IN <<questionRow, emptyRow>>
     \o Ascending({i \in 1..Len(questionBlock) :
                     i # questionRow /\ i # emptyRow /\ heap[questionBlock[i]].locked})

shuffleAnswers(heap, rows_) ==
  LET sectionsByQuestion == splitIntoSectionsAndQuestions(heap, rows_)
      allQuestions == Flat(sectionsByQuestion)
      \* the blocks of allQuestions are the block arrays of sectionsByQuestion,
      \* so shuffling them in place shuffles sectionsByQuestion.flat(2)
      shuffled ==
        ForEach([q \in 1..Len(allQuestions) |->
                   IF heap[allQuestions[q][1]].type = "section"
                     THEN {allQuestions[q]}
                     ELSE shuffleArray(allQuestions[q],
                                       AnswerLocks(heap, allQuestions[q]))])
  IN {reletterAnswers(heap, Flat(s)) : s \in shuffled}

\* the main entry point; [...rows] copies the array, not the row objects
shuffle(heap, rows_, mode) ==
  CASE mode = "sections" -> shuffleSections(heap, rows_)
    [] mode = "questions" -> shuffleQuestions(heap, rows_)
    [] mode = "answers" -> shuffleAnswers(heap, rows_)

(***************************************************************************)
(* Text.  A text is a sequence of characters (one-character strings);      *)
(* positions are 1-based, Len(t) + 1 is the end of the text.               *)
(***************************************************************************)
Digits == {"0", "1", "2", "3", "4", "5", "6", "7", "8", "9"}

\* the characters parseMcq replaces by "\n"
LineEndings == {"\n", "\r"}

\* \s of the regular expressions
WhiteSpace == {" ", "\t"} \cup LineEndings

AnswerLetters == {"A", "B", "C", "D", "E", "a", "b", "c", "d", "e"}

\* the letter as typed
keepCase(c) == c

toUpperCase(c) ==
  CASE c = "a" -> "A" [] c = "b" -> "B" [] c = "c" -> "C"
    [] c = "d" -> "D" [] c = "e" -> "E" [] OTHER -> c

\* the character of t at position p, "" past either end
At(t, p) == IF p \in 1..Len(t) THEN t[p] ELSE ""

\* text.substring(p - 1, q - 1)
Sub(t, p, q) == SubSeq(t, p, q - 1)

RECURSIVE Str(_)
\* the string of a text
Str(t) == IF t = <<>> THEN "" ELSE Head(t) \o Str(Tail(t))

RECURSIVE SkipSet(_, _, _)
\* the first position from p on whose character is not in set S
SkipSet(t, p, S) ==
  IF p <= Len(t) /\ t[p] \in S THEN SkipSet(t, p + 1, S) ELSE p

\* \s* from p: the position after the run of white space
SkipWs(t, p) == SkipSet(t, p, WhiteSpace)

RECURSIVE LastNonWs(_, _)
\* the last position up to p whose character is not white space, 0 if none
LastNonWs(t, p) ==
  IF p = 0 \/ t[p] \notin WhiteSpace THEN p ELSE LastNonWs(t, p - 1)

\* String.prototype.trim
trim(t) == Sub(t, SkipWs(t, 1), LastNonWs(t, Len(t)) + 1)

\* replace(/[\u000a\u000b\u000c\u000d\u0085  ]/g, '\n')
replaceLineEndings(t) ==
  [p \in 1..Len(t) |-> IF t[p] \in LineEndings THEN "\n" ELSE t[p]]

RECURSIVE parseInt(_, _)
\* parseInt of a run of digits, acc the value of the digits read so far
parseInt(t, acc) ==
  IF t = <<>> THEN acc
  ELSE parseInt(Tail(t),
                10 * acc + (CHOOSE d \in 0..9 :
                              Head(t) = <<"0", "1", "2", "3", "4", "5", "6", "7", "8", "9">>[d + 1]))

RECURSIVE SkipUntil(_, _, _)
\* the first position from p on whose character is in set S, Len(t) + 1 if none
SkipUntil(t, p, S) ==
  IF p <= Len(t) /\ t[p] \notin S THEN SkipUntil(t, p + 1, S) ELSE p

(***************************************************************************)
(* The parser (src/unnamed/part_002).                                      *)
(***************************************************************************)
NoMatch == [ok |-> FALSE]

\* /^\s*(?:(\d{1,3})[.)]|(###.*))/gm tried at position p: ^ needs p to start
\* a line, \s* runs over blank lines, then a number of one to three digits
\* and "." or ")", or "###" and the rest of its line
blockStartAt(t, p) ==
  LET q == SkipWs(t, p)
      d == SkipSet(t, q, Digits)
      e == SkipUntil(t, q, LineEndings)
  IN IF ~(p = 1 \/ At(t, p - 1) \in LineEndings) THEN NoMatch
     ELSE IF d - q \in 1..3 /\ At(t, d) \in {".", ")"}
       THEN [ok |-> TRUE, index |-> p, end |-> d + 1, isSection |-> FALSE,
             group |-> Sub(t, q, d)]
     ELSE IF At(t, q) = "#" /\ At(t, q + 1) = "#" /\ At(t, q + 2) = "#"
       THEN [ok |-> TRUE, index |-> p, end |-> e, isSection |-> TRUE,
             group |-> Sub(t, q, e)]
     ELSE NoMatch

RECURSIVE blockStartPattern(_, _)
\* blockStartPattern.exec with lastIndex = lastIndex - 1: the first match from
\* there on
blockStartPattern(t, lastIndex) ==
  IF lastIndex > Len(t) THEN NoMatch
  ELSE IF blockStartAt(t, lastIndex).ok THEN blockStartAt(t, lastIndex)
  ELSE blockStartPattern(t, lastIndex + 1)

RECURSIVE SplitBlocks(_, _)
\* lines 41-69: the blocks from the match on: each runs to the index of the
\* next match, the last to the end of the text
SplitBlocks(t, match) ==
  LET nextMatch == blockStartPattern(t, match.end)
      end == IF nextMatch.ok THEN nextMatch.index ELSE Len(t) + 1
      block == [text |-> Sub(t, match.index, end),
                type |-> IF match.isSection THEN "section" ELSE "question",
                match |-> match]
  IN IF nextMatch.ok THEN <<block>> \o SplitBlocks(t, nextMatch) ELSE <<block>>

\* block.match(/^\s*(\d{1,3})[.)]\s*(\([^)]*\))?\s*/)
questionMatch(block) ==
  LET q == SkipWs(block, 1)
      d == SkipSet(block, q, Digits)
      r == SkipWs(block, d + 1)
      c == SkipUntil(block, r + 1, {")"})
      r2 == IF At(block, r) = "(" /\ c <= Len(block) THEN c + 1 ELSE r
  IN IF d - q \in 1..3 /\ At(block, d) \in {".", ")"}
       THEN [ok |-> TRUE, number |-> Sub(block, q, d), end |-> SkipWs(block, r2)]
       ELSE NoMatch

\* /\s*[*]?\s*[Aa][.)]\s+/ tried at position i
answerStartAt(t, i) ==
  LET q1 == SkipWs(t, i)
      q2 == IF At(t, q1) = "*" THEN q1 + 1 ELSE q1
      q3 == SkipWs(t, q2)
  IN /\ At(t, q3) \in {"A", "a"}
     /\ At(t, q3 + 1) \in {".", ")"}
     /\ At(t, q3 + 2) \in WhiteSpace

RECURSIVE answerStartPattern(_, _)
\* remainingText.match(answerStartPattern).index + 1 from i on, 0 for no match
answerStartPattern(t, i) ==
  IF i > Len(t) THEN 0
  ELSE IF answerStartAt(t, i) THEN i
  ELSE answerStartPattern(t, i + 1)

\* the lookahead \s[*]?\s*[A-Ea-e][.)] at position c
nextAnswerAhead(t, c) ==
  LET a == IF At(t, c + 1) = "*" THEN c + 2 ELSE c + 1
      b == SkipWs(t, a)
  IN /\ At(t, c) \in WhiteSpace
     /\ At(t, b) \in AnswerLetters
     /\ At(t, b + 1) \in {".", ")"}

\* the character at c without the lookahead: any but a line ending
contentCharNoLookahead(t, c) ==
  c \in 1..Len(t) /\ t[c] \notin LineEndings

\* (?!...). matches the character at c: not a line ending, no answer ahead
contentChar(t, c) ==
  c \in 1..Len(t) /\ t[c] \notin LineEndings /\ ~nextAnswerAhead(t, c)

RECURSIVE contentEnd(_, _)
\* the position after the run of content characters from c
contentEnd(t, c) == IF contentChar(t, c) THEN contentEnd(t, c + 1) ELSE c

\* /([*])?\s*([A-Ea-e])[.)]\s+((?:(?!\s[*]?\s*[A-Ea-e][.)]).)+)/ tried at i;
\* \s+ is greedy and gives white space back until a content character follows
answerAt(t, i) ==
  LET star == At(t, i) = "*"
      p2 == SkipWs(t, IF star THEN i + 1 ELSE i)
      w == p2 + 2
      e == SkipWs(t, w)
      starts == {c \in (w + 1)..e : contentChar(t, c)}
      c == CHOOSE x \in starts : \A y \in starts : y <= x
  IN IF /\ At(t, p2) \in AnswerLetters
        /\ At(t, p2 + 1) \in {".", ")"}
        /\ starts # {}
       THEN [ok |-> TRUE, isCorrect |-> star, letter |-> At(t, p2),
             text |-> Sub(t, c, contentEnd(t, c)), end |-> contentEnd(t, c)]
       ELSE NoMatch

RECURSIVE answerPattern(_, _)
\* answerPattern.exec from lastIndex on
answerPattern(t, lastIndex) ==
  IF lastIndex > Len(t) THEN NoMatch
  ELSE IF answerAt(t, lastIndex).ok THEN answerAt(t, lastIndex)
  ELSE answerPattern(t, lastIndex + 1)

RECURSIVE ParseAnswers(_, _, _, _)
\* lines 164-181: one Answer row per match
ParseAnswers(answersText, lastIndex, startId, rows_) ==
  LET answerMatch == answerPattern(answersText, lastIndex)
      row == [createRow(startId + Len(rows_) + 1, "answer",
                        toUpperCase(answerMatch.letter),
                        Str(trim(answerMatch.text)), Undefined)
                EXCEPT !.isKey = answerMatch.isCorrect]
  IN IF answerMatch.ok
       THEN ParseAnswers(answersText, answerMatch.end, startId, Append(rows_, row))
       ELSE rows_

\* ok is FALSE where the source throws 'Invalid question format'
parseQuestionBlockFlexible(block, startId) ==
  LET m == questionMatch(block)
      questionNumber == m.number
      remainingText == Sub(block, m.end, Len(block) + 1)
      answerStart == answerStartPattern(remainingText, 1)
      questionText == IF answerStart # 0
                        THEN trim(Sub(remainingText, 1, answerStart))
                        ELSE trim(remainingText)
      answersText == IF answerStart # 0
                       THEN Sub(remainingText, answerStart, Len(remainingText) + 1)
                       ELSE <<>>
      question == createRow(startId + 1, "question", Str(questionNumber),
                            Str(questionText), parseInt(questionNumber, 0))
  IN IF ~m.ok THEN [ok |-> FALSE, rows |-> <<>>]
     ELSE [ok |-> TRUE,
           rows |-> ParseAnswers(answersText, 1, startId, <<question>>)]

\* row.id = ++rowId for each row of a block
Renumber(questionRows, rowId) ==
  [k \in 1..Len(questionRows) |-> [questionRows[k] EXCEPT !.id = rowId + k]]

\* match[2].replace(/^###\s*/, '').trim()
sectionTitle(group) == trim(Sub(group, SkipWs(group, 4), Len(group) + 1))

\* the Error row alone, its text trimmed
errorRowsBare(block, rowId) ==
  <<createRow(rowId + 1, "error", "error", Str(trim(block.text)), Undefined)>>

\* lines 98-101: the rows of a question block whose parsing threw
errorRows(block, rowId) ==
  <<createRow(rowId + 1, "error", "error", Str(block.text), Undefined),
    createRow(rowId + 2, "empty", "", "", Undefined)>>

RECURSIVE ProcessBlocks(_, _, _)
\* lines 82-103: the rows of the blocks from block k on, after rows_
ProcessBlocks(blocks, k, rows_) ==
  LET block == blocks[k]
      rowId == Len(rows_)
      parsed == parseQuestionBlockFlexible(block.text, rowId)
      blockRows ==
        IF block.type = "section"
          THEN <<createRow(rowId + 1, "section", "S",
                           Str(sectionTitle(block.match.group)), Undefined),
                 createRow(rowId + 2, "empty", "", "", Undefined)>>
        ELSE IF parsed.ok
          THEN Renumber(parsed.rows, rowId)
               \o <<createRow(rowId + Len(parsed.rows) + 1, "empty", "", "", Undefined)>>
        ELSE errorRows(block, rowId)
  IN IF k > Len(blocks) THEN rows_
     ELSE ProcessBlocks(blocks, k + 1, rows_ \o blockRows)

parseMcq(input_) ==
  LET normalized == replaceLineEndings(trim(input_))
      match == blockStartPattern(normalized, 1)
      headerText == trim(Sub(normalized, 1, match.index))
      header == IF match.index > 1 /\ headerText # <<>>
                  THEN <<createRow(1, "section", "S", Str(headerText), Undefined),
                         createRow(2, "empty", "", "", Undefined)>>
                  ELSE <<>>
  IN IF normalized = <<>> THEN <<>>
     ELSE IF ~match.ok
       THEN <<createRow(1, "section", "S", Str(normalized), Undefined),
              createRow(2, "empty", "", "", Undefined)>>
     ELSE ProcessBlocks(SplitBlocks(normalized, match), 1, header)

(***************************************************************************)
(* The answer key (src/unnamed/part_002).                                  *)
(***************************************************************************)
RECURSIVE split(_, _)
\* input.split('\n'), cur the line being read
split(t, cur) ==
  IF t = <<>> THEN <<cur>>
  ELSE IF Head(t) = "\n" THEN <<cur>> \o split(Tail(t), <<>>)
  ELSE split(Tail(t), Append(cur, Head(t)))

\* [.):\s] and [A-Ea-e,\s]
KeySeparators == {".", ")", ":"} \cup WhiteSpace

KeyTail == AnswerLetters \cup {","} \cup WhiteSpace

\* /(\d+)[.):\s]+([A-Ea-e,\s]+)/ tried at position i; the separators are
\* greedy and give white space back until a character of the tail follows
keyLineAt(t, i) ==
  LET d == SkipSet(t, i, Digits)
      sepEnd == SkipSet(t, d, KeySeparators)
      starts == {s \in (d + 1)..sepEnd : At(t, s) \in KeyTail}
      s == CHOOSE x \in starts : \A y \in starts : y <= x
  IN IF d > i /\ starts # {}
       THEN [ok |-> TRUE, number |-> Sub(t, i, d),
             tail |-> Sub(t, s, SkipSet(t, s, KeyTail))]
       ELSE NoMatch

RECURSIVE keyLineMatch(_, _)
\* line.match(...): the first match from position i on
keyLineMatch(t, i) ==
  IF i > Len(t) THEN NoMatch
  ELSE IF keyLineAt(t, i).ok THEN keyLineAt(t, i)
  ELSE keyLineMatch(t, i + 1)

\* the first letter of the tail only
KeyLettersFirst(tail) ==
  LET found == SelectSeq([k \in 1..Len(tail) |-> toUpperCase(tail[k])],
                         LAMBDA c : c \in {"A", "B", "C", "D", "E"})
  IN SubSeq(found, 1, IF Len(found) > 0 THEN 1 ELSE 0)

\* match[2].toUpperCase().replace(/[^A-E]/g, '').split('')
KeyLetters(tail) ==
  SelectSeq([k \in 1..Len(tail) |-> toUpperCase(tail[k])],
            LAMBDA c : c \in {"A", "B", "C", "D", "E"})

\* answerKey.set(questionNum, answers)
MapSet(map, key, value) ==
  [k \in DOMAIN map \cup {key} |-> IF k = key THEN value ELSE map[k]]

RECURSIVE ParseKeyLines(_, _, _)
\* lines 221-235: the lines from line k on
ParseKeyLines(lines, k, answerKey_) ==
  LET match == keyLineMatch(lines[k], 1)
      answers == KeyLetters(match.tail)
  IN IF k > Len(lines) THEN answerKey_
     ELSE ParseKeyLines(lines, k + 1,
            IF match.ok /\ answers # <<>>
              THEN MapSet(answerKey_, parseInt(match.number, 0), answers)
              ELSE answerKey_)

parseAnswerKey(input_) ==
  IF trim(input_) = <<>> THEN <<>>
  ELSE ParseKeyLines(SelectSeq(split(input_, <<>>), LAMBDA line : trim(line) # <<>>),
                     1, <<>>)

\* the labels that are one to three digits, as the parser writes them
NumericTexts ==
  UNION {[1..n -> Digits] : n \in 1..3}

NumericLabels == {Str(t) : t \in NumericTexts}

NumericValues == {<<Str(t), parseInt(t, 0)>> : t \in NumericTexts}

\* currentQuestionNum before the first Question row, and the value parseInt
\* gives for a label that is not a number
Null == -2
NaN == -3

\* the labels that are a minus sign and one digit
NegativeTexts == {<<"-", c>> : c \in Digits}

\* parseInt(row.label)
labelNumber(label) ==
  IF label \in NumericLabels
    THEN (CHOOSE p \in NumericValues : p[1] = label)[2]
  ELSE IF \E t \in NegativeTexts : Str(t) = label
    THEN 0 - parseInt(Tail(CHOOSE t \in NegativeTexts : Str(t) = label), 0)
  ELSE NaN

RECURSIVE ApplyFrom(_, _, _, _, _)
\* lines 260-269: the rows from index k on
ApplyFrom(heap, rows_, k, answerKey_, currentQuestionNum) ==
  LET row == rows_[k]
      correctAnswers == IF currentQuestionNum \in DOMAIN answerKey_
                          THEN answerKey_[currentQuestionNum] ELSE <<>>
      includes == \E j \in 1..Len(correctAnswers) : correctAnswers[j] = heap[row].label
  IN IF k > Len(rows_) THEN heap
     ELSE IF heap[row].type = "question"
       THEN ApplyFrom(heap, rows_, k + 1, answerKey_, labelNumber(heap[row].label))
     ELSE IF heap[row].type = "answer" /\ currentQuestionNum # Null /\ includes
       THEN ApplyFrom([heap EXCEPT ![row].isKey = TRUE], rows_, k + 1,
                      answerKey_, currentQuestionNum)
     ELSE ApplyFrom(heap, rows_, k + 1, answerKey_, currentQuestionNum)

\* the key marks left as they are
KeepKeys(heap, rows_) == heap

\* lines 251-255: row.isKey = false on every Answer row of the array
ResetKeys(heap, rows_) ==
  [r \in 1..Len(heap) |->
     IF heap[r].type = "answer" /\ \E k \in 1..Len(rows_) : rows_[k] = r
       THEN [heap[r] EXCEPT !.isKey = FALSE] ELSE heap[r]]

\* the rows are written where they are; the array that was passed is returned
applyAnswerKey(heap, rows_, answerKey_) ==
  [heap |-> ApplyFrom(ResetKeys(heap, rows_), rows_, 1, answerKey_, Null),
   rows |-> rows_]

(***************************************************************************)
(* The generator (src/src/services/generator.ts).  Labels and row texts    *)
(* are strings in the rows and characters in the texts that are built.     *)
(***************************************************************************)
\* the characters of a label or of a row text of the model
chars(s) ==
  IF s = "" THEN <<>>
  ELSE IF s = "error" THEN <<"e", "r", "r", "o", "r">>
  ELSE IF s \in NumericLabels THEN CHOOSE t \in NumericTexts : Str(t) = s
  ELSE IF \E t \in NegativeTexts : Str(t) = s
    THEN CHOOSE t \in NegativeTexts : Str(t) = s
  ELSE <<s>>

RECURSIVE toString(_)
\* the decimal digits of an integer, as template literals write it
toString(n) ==
  IF n < 0 THEN <<"-">> \o toString(-n)
  ELSE IF n < 10 THEN <<(<<"0", "1", "2", "3", "4", "5", "6", "7", "8", "9">>)[n + 1]>>
  ELSE toString(n \div 10) \o toString(n % 10)

toLowerCase(c) ==
  CASE c = "A" -> "a" [] c = "B" -> "b" [] c = "C" -> "c"
    [] c = "D" -> "d" [] c = "E" -> "e" [] OTHER -> c

RECURSIVE join(_, _)
\* array.join(separator) over texts
join(array, separator) ==
  IF Len(array) = 0 THEN <<>>
  ELSE IF Len(array) = 1 THEN array[1]
  ELSE array[1] \o separator \o join(Tail(array), separator)

\* format.xxx[0] || fallback: the first entry unless it is absent or empty
firstOr(array, fallback) ==
  IF Len(array) = 0 \/ array[1] = <<>> THEN fallback ELSE array[1]

RECURSIVE ExamOutputFrom(_, _, _, _, _)
\* lines 19-39: the rows from index k on
ExamOutputFrom(rows_, config, k, output, currentQuestionNum) ==
  LET row == rows_[k]
      letter == IF config.format.answerLowercase
                  THEN [p \in 1..Len(chars(row.label)) |-> toLowerCase(chars(row.label)[p])]
                  ELSE chars(row.label)
  IN IF k > Len(rows_) THEN output
     ELSE IF row.type = "section"
       THEN ExamOutputFrom(rows_, config, k + 1,
              output \o <<"\n">> \o chars(row.text) \o <<"\n", "\n">>,
              currentQuestionNum)
     ELSE IF row.type = "question"
       THEN ExamOutputFrom(rows_, config, k + 1,
              output \o firstOr(config.format.questionPrefix, <<>>)
                     \o toString(currentQuestionNum)
                     \o firstOr(config.format.questionPostfix, <<")", " ">>)
                     \o chars(row.text) \o <<"\n">>,
              currentQuestionNum + 1)
     ELSE IF row.type = "answer"
       THEN ExamOutputFrom(rows_, config, k + 1,
              output \o <<" ", " ", " ">>
                     \o firstOr(config.format.answerPrefix, <<>>)
                     \o letter
                     \o firstOr(config.format.answerPostfix, <<")", " ">>)
                     \o chars(row.text) \o <<"\n">>,
              currentQuestionNum)
     ELSE IF row.type = "empty"
       THEN ExamOutputFrom(rows_, config, k + 1, output \o <<"\n">>, currentQuestionNum)
     ELSE ExamOutputFrom(rows_, config, k + 1, output, currentQuestionNum)

generateExamOutput(rows_, config) ==
  trim(ExamOutputFrom(rows_, config, 1, <<>>, config.startNumber))

\* the line numbered with the counter as it stands
keyLineNext(currentQuestionNum, currentAnswers) ==
  toString(currentQuestionNum) \o <<".", " ">> \o join(currentAnswers, <<",", " ">>)

\* `${currentQuestionNum - 1}. ${currentAnswers.join(', ')}`
keyLine(currentQuestionNum, currentAnswers) ==
  toString(currentQuestionNum - 1) \o <<".", " ">> \o join(currentAnswers, <<",", " ">>)

\* the line kept for a question that has no keyed answer
flushAlways(answerKey_, currentQuestionNum, currentAnswers) ==
  Append(answerKey_, keyLine(currentQuestionNum, currentAnswers))

\* if (currentAnswers.length > 0) answerKey.push(...)
flush(answerKey_, currentQuestionNum, currentAnswers) ==
  IF Len(currentAnswers) > 0
    THEN Append(answerKey_, keyLine(currentQuestionNum, currentAnswers))
    ELSE answerKey_

RECURSIVE AnswerKeyFrom(_, _, _, _, _)
\* lines 55-76: the rows from index k on, then the last flush
AnswerKeyFrom(rows_, k, answerKey_, currentQuestionNum, currentAnswers) ==
  LET row == rows_[k]
  IN IF k > Len(rows_) THEN flush(answerKey_, currentQuestionNum, currentAnswers)
     ELSE IF row.type = "question"
       THEN AnswerKeyFrom(rows_, k + 1,
                          flush(answerKey_, currentQuestionNum, currentAnswers),
                          currentQuestionNum + 1, <<>>)
     ELSE IF row.type = "answer" /\ row.isKey
       THEN AnswerKeyFrom(rows_, k + 1, answerKey_, currentQuestionNum,
                          Append(currentAnswers, chars(row.label)))
     ELSE AnswerKeyFrom(rows_, k + 1, answerKey_, currentQuestionNum, currentAnswers)

generateAnswerKey(rows_, startNumber) ==
  AnswerKeyFrom(rows_, 1, <<>>, startNumber, <<>>)

(***************************************************************************)
(* findQuestionsWithoutKeys (src/src/services/preferences.ts).             *)
(***************************************************************************)
\* if (currentQuestionNum !== null && !currentQuestionHasKey) push
closeQuestion(questionsWithoutKeys_, currentQuestionNum, currentQuestionHasKey) ==
  IF currentQuestionNum # Null /\ ~currentQuestionHasKey
    THEN Append(questionsWithoutKeys_, currentQuestionNum)
    ELSE questionsWithoutKeys_

\* the last question left unchecked
closeNothing(questionsWithoutKeys_, currentQuestionNum, currentQuestionHasKey) ==
  questionsWithoutKeys_

\* lines 250-252: the check made after the loop
closeLast(questionsWithoutKeys_, currentQuestionNum, currentQuestionHasKey) ==
  closeQuestion(questionsWithoutKeys_, currentQuestionNum, currentQuestionHasKey)

RECURSIVE WithoutKeysFrom(_, _, _, _, _)
\* lines 234-252: the rows from index k on, then the last question
WithoutKeysFrom(rows_, k, questionsWithoutKeys_, currentQuestionNum, currentQuestionHasKey) ==
  LET row == rows_[k]
  IN IF k > Len(rows_)
       THEN closeLast(questionsWithoutKeys_, currentQuestionNum, currentQuestionHasKey)
     ELSE IF row.type = "question"
       THEN WithoutKeysFrom(rows_, k + 1,
              closeQuestion(questionsWithoutKeys_, currentQuestionNum, currentQuestionHasKey),
              labelNumber(row.label), FALSE)
     ELSE IF row.type = "answer" /\ row.isKey
       THEN WithoutKeysFrom(rows_, k + 1, questionsWithoutKeys_, currentQuestionNum, TRUE)
     ELSE WithoutKeysFrom(rows_, k + 1, questionsWithoutKeys_, currentQuestionNum,
                          currentQuestionHasKey)

findQuestionsWithoutKeys(rows_) == WithoutKeysFrom(rows_, 1, <<>>, Null, FALSE)

(***************************************************************************)
(* The answer sheet (src/src/components/mcq/AnswerSheetView.tsx): the      *)
(* questions and their correct answers, read from the store's rows.        *)
(***************************************************************************)
\* if (currentAnswers.length > 0 || currentQuestionAnswerCount > 0) push
pushQuestion(questions_, currentQuestionNum, currentAnswers, currentQuestionAnswerCount) ==
  IF Len(currentAnswers) > 0 \/ currentQuestionAnswerCount > 0
    THEN Append(questions_, [number |-> currentQuestionNum - 1,
                             correctAnswers |-> currentAnswers])
    ELSE questions_

RECURSIVE QuestionsFrom(_, _, _, _, _, _)
\* lines 202-229: the rows from index k on, then the last question
QuestionsFrom(parsedRows, k, questions_, currentQuestionNum, currentAnswers, currentQuestionAnswerCount) ==
  LET row == parsedRows[k]
  IN IF k > Len(parsedRows)
       THEN pushQuestion(questions_, currentQuestionNum, currentAnswers,
                         currentQuestionAnswerCount)
     ELSE IF row.type = "question"
       THEN QuestionsFrom(parsedRows, k + 1,
              pushQuestion(questions_, currentQuestionNum, currentAnswers,
                           currentQuestionAnswerCount),
              currentQuestionNum + 1, <<>>, 0)
     ELSE IF row.type = "answer"
       THEN QuestionsFrom(parsedRows, k + 1, questions_, currentQuestionNum,
              IF row.isKey THEN Append(currentAnswers, chars(row.label))
                           ELSE currentAnswers,
              currentQuestionAnswerCount + 1)
     ELSE QuestionsFrom(parsedRows, k + 1, questions_, currentQuestionNum,
                        currentAnswers, currentQuestionAnswerCount)

\* the questions the answer sheet draws
questions(parsedRows, config) ==
  QuestionsFrom(parsedRows, 1, <<>>, config.startNumber, <<>>, 0)

(***************************************************************************)
(* State.  rows is the row array the caller holds (by value); before is    *)
(* the array handed to the last call as it was when the call started,      *)
(* argAfter the same row objects as the call left them, op the last call.  *)
(***************************************************************************)
Deref(heap, refs) == [i \in 1..Len(refs) |-> heap[refs[i]]]

Refs(array) == [i \in 1..Len(array) |-> i]

NoResult == [isValid |-> TRUE, firstErrorRowId |-> Undefined, validatedRows |-> <<>>]

numLabels == <<"1", "2", "3", "4", "5", "6", "7", "8", "9">>

texts == <<"x", "y">>

\* the rows of an input whose i-th row has type ts[i], is locked when i is in
\* L and keyed when i is in K: ids dense from 1, questions numbered in
\* order, answers lettered from A after each question
InputRows(ts, L, K) ==
  [i \in 1..Len(ts) |->
     LET qs == {j \in 1..i : ts[j] = "question"}
         q == Cardinality(qs)
         a == Cardinality({j \in 1..i : ts[j] = "answer" /\ \A k \in qs : k < j})
         label == CASE ts[i] = "section" -> "S"
                    [] ts[i] = "question" -> numLabels[q]
                    [] ts[i] = "answer" -> letters[((a - 1) % Len(letters)) + 1]
                    [] ts[i] = "empty" -> ""
                    [] ts[i] = "error" -> "error"
     IN [createRow(i, ts[i], label, texts[(i % Len(texts)) + 1],
                   IF ts[i] = "question" THEN q ELSE Undefined)
           EXCEPT !.locked = i \in L, !.isKey = i \in K]]

\* an input of at most MaxLen rows of any types, at most MaxLocked of them
\* locked and at most MaxKeys answers keyed
AnyInput(r) ==
  \E n \in 0..MaxLen :
    \E ts \in [1..n -> ParsedRowType] :
      \E L \in SUBSET (1..n), K \in SUBSET {i \in 1..n : ts[i] = "answer"} :
        /\ Cardinality(L) <= MaxLocked
        /\ Cardinality(K) <= MaxKeys
        /\ r = InputRows(ts, L, K)

\* the rows parseMcq builds for one block: a section header and its empty
\* row, or a question, its k answers and the empty row that closes it
BlockTypes(isSection, k) ==
  IF isSection THEN <<"section", "empty">>
  ELSE <<"question">> \o [i \in 1..k |-> "answer"] \o <<"empty">>

\* an input shaped like a parsed document: at most MaxBlocks blocks and
\* MaxDocRows rows, a question having at most MaxAnswers answers
DocInput(r) ==
  \E nb \in 1..MaxBlocks :
    \E sec \in [1..nb -> BOOLEAN], ks \in [1..nb -> 0..MaxAnswers] :
      LET ts == Flat([b \in 1..nb |-> BlockTypes(sec[b], ks[b])])
          n == Len(ts)
      IN /\ \A b \in 1..nb : sec[b] => ks[b] = 0
         /\ n <= MaxDocRows
         /\ \E L \in SUBSET (1..n), K \in SUBSET {i \in 1..n : ts[i] = "answer"} :
              /\ Cardinality(L) <= MaxLocked
              /\ Cardinality(K) <= MaxKeys
              /\ r = InputRows(ts, L, K)

\* initialState of the store (src/unnamed/part_001): empty texts, the
\* import view; no answer key has been read
InitUi ==
  /\ input = <<>>
  /\ answerKeyInput = <<>>
  /\ answerKey = <<>>
  /\ currentView = "import"

\* initialState.formatSettings and initialState.examConfig of the store
\* (src/unnamed/part_001); a text is a sequence of characters
initialFormatSettings ==
  [questionPrefix |-> << <<>>, <<>> >>,
   questionPostfix |-> << <<".", " ">>, <<")", ".", " ">> >>,
   answerPrefix |-> << <<>>, <<>> >>,
   answerPostfix |-> << <<".", " ">>, <<")", ".", " ">> >>,
   answerLowercase |-> FALSE,
   correctPrefix |-> << <<"*">> >>]

initialExamConfig ==
  [shuffleSections |-> FALSE,
   shuffleQuestions |-> FALSE,
   shuffleAnswers |-> FALSE,
   startNumber |-> 1,
   format |-> [questionPrefix |-> << <<>>, <<>> >>,
               questionPostfix |-> << <<".", " ">>, <<")", ".", " ">> >>,
               answerPrefix |-> << <<>>, <<>> >>,
               answerPostfix |-> << <<".", " ">>, <<")", ".", " ">> >>,
               answerLowercase |-> FALSE]]

\* the rest of initialState, and the generate view before any rows are shown
InitGen ==
  /\ shuffledRows = <<>>
  /\ previewOutput = <<>>
  /\ previewKey = <<>>
  /\ questionsWithoutKeys = <<>>
  /\ examOutput = <<>>
  /\ storeAnswerKey = <<>>
  /\ formatSettings = initialFormatSettings
  /\ examConfig = initialExamConfig
  /\ lockedAt = <<>>

Init ==
  /\ AnyInput(rows) \/ DocInput(rows)
  /\ before = <<>>
  /\ argAfter = <<>>
  /\ op = "init"
  /\ vres = NoResult
  /\ InitUi
  /\ InitGen

\* a caller passes its rows to shuffle(rows, mode) and keeps the result; the
\* model follows repeated calls on arrays of at most MaxLen rows and a
\* single call on a longer input
Shuffle(mode) ==
  /\ op = "init" \/ Len(rows) <= MaxLen
  /\ \E out \in shuffle(rows, Refs(rows), mode) :
       /\ rows' = Deref(out.heap, out.rows)
       /\ before' = rows
       /\ argAfter' = Deref(out.heap, Refs(rows))
       /\ op' = mode
       /\ UNCHANGED <<vres, ui>>
       /\ UNCHANGED gen

handleShuffleSections == Shuffle("sections")

handleShuffleQuestions == Shuffle("questions")

handleShuffleAnswers == Shuffle("answers")

Next ==
  \/ handleShuffleSections
  \/ handleShuffleQuestions
  \/ handleShuffleAnswers

Spec == Init /\ [][Next]_vars

(***************************************************************************)
(* validateParsedMcq (src/src/services/preferences.ts).                    *)
(***************************************************************************)
\* /^\d+$/ over the labels of the model
isNum(label) == label \in NumericLabels

\* a neighbour already marked Error reads as the label "error"
LabelAtErrorAware(heap, validatedRows, k) ==
  IF k \in 1..Len(validatedRows)
    THEN IF heap[validatedRows[k]].type = "error" THEN "error"
         ELSE heap[validatedRows[k]].label
    ELSE ""

\* validatedRows[k]?.label || '' guarded by the index tests of lines 134-142
LabelAt(heap, validatedRows, k) ==
  IF k \in 1..Len(validatedRows) THEN heap[validatedRows[k]].label ELSE ""

\* the per-label rules with a section label judged by its neighbours alone
hasErrorNoLookAhead(label, previousLabel, nextLabel, nextNextLabel) ==
  \/ label = "S" /\ (previousLabel # "" \/ nextLabel # "")
  \/ label = "" /\ (\/ previousLabel = "A"
                    \/ isNum(previousLabel)
                    \/ nextLabel \in {"A", "B", "C", "D", "E"})
  \/ isNum(label) /\ (previousLabel # "" \/ nextLabel # "A")
  \/ label = "A" /\ (~isNum(previousLabel) \/ nextLabel # "B")
  \/ label = "B" /\ (previousLabel # "A" \/ (nextLabel # "C" /\ nextLabel # ""))
  \/ label = "C" /\ (previousLabel # "B" \/ (nextLabel # "D" /\ nextLabel # ""))
  \/ label = "D" /\ (previousLabel # "C" \/ (nextLabel # "E" /\ nextLabel # ""))
  \/ label = "E" /\ (previousLabel # "D" \/ nextLabel # "")

\* the per-label rules with a numeric label judged by its successor alone
hasErrorNoLookBehind(label, previousLabel, nextLabel, nextNextLabel) ==
  \/ label = "S" /\ (previousLabel # "" \/ nextLabel # "" \/ ~isNum(nextNextLabel))
  \/ label = "" /\ (\/ previousLabel = "A"
                    \/ isNum(previousLabel)
                    \/ nextLabel \in {"A", "B", "C", "D", "E"})
  \/ isNum(label) /\ nextLabel # "A"
  \/ label = "A" /\ (~isNum(previousLabel) \/ nextLabel # "B")
  \/ label = "B" /\ (previousLabel # "A" \/ (nextLabel # "C" /\ nextLabel # ""))
  \/ label = "C" /\ (previousLabel # "B" \/ (nextLabel # "D" /\ nextLabel # ""))
  \/ label = "D" /\ (previousLabel # "C" \/ (nextLabel # "E" /\ nextLabel # ""))
  \/ label = "E" /\ (previousLabel # "D" \/ nextLabel # "")

\* lines 144-204: the per-label rules
hasError(label, previousLabel, nextLabel, nextNextLabel) ==
  \/ label = "S" /\ (previousLabel # "" \/ nextLabel # "" \/ ~isNum(nextNextLabel))
  \/ label = "" /\ (\/ previousLabel = "A"
                    \/ isNum(previousLabel)
                    \/ nextLabel \in {"A", "B", "C", "D", "E"})
  \/ isNum(label) /\ (previousLabel # "" \/ nextLabel # "A")
  \/ label = "A" /\ (~isNum(previousLabel) \/ nextLabel # "B")
  \/ label = "B" /\ (previousLabel # "A" \/ (nextLabel # "C" /\ nextLabel # ""))
  \/ label = "C" /\ (previousLabel # "B" \/ (nextLabel # "D" /\ nextLabel # ""))
  \/ label = "D" /\ (previousLabel # "C" \/ (nextLabel # "E" /\ nextLabel # ""))
  \/ label = "E" /\ (previousLabel # "D" \/ nextLabel # "")

\* if (!firstErrorRowId) firstErrorRowId = row.id: unset, or set to 0
FirstErrorUnset(firstErrorRowId) ==
  firstErrorRowId = Undefined \/ firstErrorRowId = 0

RECURSIVE ValidateFrom(_, _, _, _)
\* the forEach of lines 119-213 from row index on
ValidateFrom(heap, validatedRows, index, firstErrorRowId) ==
  IF index > Len(validatedRows)
    THEN [heap |-> heap,
          result |-> [isValid |-> firstErrorRowId = Undefined,
                      firstErrorRowId |-> firstErrorRowId,
                      validatedRows |-> validatedRows]]
  ELSE LET row == validatedRows[index]
           wasError == heap[row].type = "error"
           reset == IF wasError THEN heap[row].type
                    ELSE IF heap[row].type \in {"section", "question", "answer"}
                      THEN heap[row].type
                    ELSE "empty"
           bad == wasError
                  \/ hasError(heap[row].label,
                              LabelAt(heap, validatedRows, index - 1),
                              LabelAt(heap, validatedRows, index + 1),
                              LabelAt(heap, validatedRows, index + 2))
       IN ValidateFrom([heap EXCEPT ![row].type = IF bad THEN "error" ELSE reset],
                       validatedRows, index + 1,
                       IF bad /\ FirstErrorUnset(firstErrorRowId)
                         THEN heap[row].id ELSE firstErrorRowId)

\* the rows validated where they are, without the copy of line 116
validateParsedMcqInPlace(heap, rows_) ==
  IF Len(rows_) = 0
    THEN [heap |-> heap, result |-> NoResult]
    ELSE ValidateFrom(heap, rows_, 1, Undefined)

validateParsedMcq(heap, rows_) ==
  IF Len(rows_) = 0
    THEN [heap |-> heap, result |-> NoResult]
    ELSE \* rows.map(row => ({ ...row })): one new object per row
         ValidateFrom(heap \o Deref(heap, rows_),
                      [i \in 1..Len(rows_) |-> Len(heap) + i], 1, Undefined)

\* handleParse: the rows are validated and the validated copy is stored
Validate ==
  LET out == validateParsedMcq(rows, Refs(rows))
  IN /\ vres' = [out.result EXCEPT !.validatedRows = Deref(out.heap, @)]
     /\ rows' = Deref(out.heap, out.result.validatedRows)
     /\ before' = rows
     /\ argAfter' = Deref(out.heap, Refs(rows))
     /\ op' = "validate"
     /\ UNCHANGED ui
     /\ UNCHANGED gen

(***************************************************************************)
(* Inputs of the validator: rows of any labels, some already in error.     *)
(***************************************************************************)
MaxVLen == 4
MaxPreErrors == 1

VLabels == {"S", "1", "A", "B", "C", "D", "E", "", "error"}

TypeOfLabel(label) ==
  CASE label = "S" -> "section"
    [] isNum(label) -> "question"
    [] label \in {"A", "B", "C", "D", "E"} -> "answer"
    [] label = "" -> "empty"
    [] OTHER -> "error"

\* rows with labels ls, ids dense from firstId, the rows at E already in error
LabelledRows(ls, E, firstId) ==
  [i \in 1..Len(ls) |->
     createRow(firstId + i - 1,
               IF i \in E THEN "error" ELSE TypeOfLabel(ls[i]),
               ls[i], texts[(i % Len(texts)) + 1], Undefined)]

InitV ==
  /\ \E n \in 0..MaxVLen :
       \E ls \in [1..n -> VLabels], E \in SUBSET (1..n), firstId \in {0, 1} :
         /\ Cardinality(E) <= MaxPreErrors
         /\ rows = LabelledRows(ls, E, firstId)
  /\ before = <<>>
  /\ argAfter = <<>>
  /\ op = "init"
  /\ vres = NoResult
  /\ InitUi
  /\ InitGen

NextV == Validate

SpecV == InitV /\ [][NextV]_vars

(***************************************************************************)
(* Texts a user can paste: the lines below, joined by line feeds.          *)
(***************************************************************************)
MaxLines == 2
MaxKeyLines == 2

DocLines ==
  << <<"1", ".", " ", "Q", "1", "?", " ", "A", ".", " ", "a", "1", " ", "B", ".", " ", "a", "2">>,
     <<"2", ".", " ", "Q", "2", "?", " ", "A", ".", " ", "a", "1", " ", "B", ".", " ", "a", "2">>,
     <<"#", "#", "#", " ", "H">>,
     <<"i", "n", "t", "r", "o">>,
     <<"a", ".", " ", "x">>,
     <<"*", "b", ")", " ", "y">>,
     <<"3", ")", " ", "(", "p", ")", " ", "R">>,
     <<>>,
     <<"C", ".", " ", "z", " ", "d", ".", " ", "w", " ", "e", ".", " ", "v", " ", "E", ".", " ", "u">>,
     <<"1", "2", ".", "\t", "q", " ", "*", "A", ")", " ", "k">>,
     <<"1", "2", "3", "4", ".", " ", "x">>,
     <<"b", ".", "\r", "z">> >>

KeyLines ==
  << <<"1", ".", " ", "B">>,
     <<"2", ")", " ", "A", ",", " ", "C">>,
     <<"3", " ", "D">>,
     <<"x">>,
     <<"1", ":", " ", "e">>,
     <<"Q", "2", ".", " ", "b", ",", "B">>,
     <<"2", ".", " ", " ">>,
     <<"1", ".", " ", "F">>,
     <<>>,
     <<"1", "2", " ", "a", "b", "!">>,
     <<"1", ".", "\r", "A", " ", " ">>,
     <<"3">>,
     <<"1", ".", "5", " ", "B">>,
     <<"1", ".", " ", "B", ",", " ", "F", ",", " ", "C">>,
     <<" ", "0", "1", ")", " ", "c", " ", "c">> >>

RECURSIVE Join(_, _)
\* the lines ls of the samples L, in order, with "\n" between them
Join(L, ls) ==
  IF Len(ls) = 0 THEN <<>>
  ELSE IF Len(ls) = 1 THEN L[ls[1]]
  ELSE L[ls[1]] \o <<"\n">> \o Join(L, Tail(ls))

\* the texts of 1..n lines taken from the samples L
TextsOf(L, n) ==
  {Join(L, ls) : ls \in UNION {[1..k -> 1..Len(L)] : k \in 1..n}}

\* documents of several sections
LongDocTexts ==
  { <<"i", "n", "t", "r", "o", "\n", "1", ".", " ", "Q", "1", "?", " ", "A", ".", " ", "a", "1", " ", "B", ".", " ", "a", "2", "\n", "#", "#", "#", " ", "H", "\n", "3", ")", " ", "(", "p", ")", " ", "R">>,
    <<"1", ".", " ", "Q", " ", "a", ".", " ", "x", "\n", "#", "#", "#", " ", "H", "\n", "2", ".", " ", "R", " ", "*", "a", ")", " ", "u", "\n", "3", ".", " ", "T">>,
    <<"#", "#", "#", " ", "G", "\n", "#", "#", "#", " ", "H", "\n", "7", ".", " ", "Q">>,
    <<"1", ".", " ", "Q", "\n", "\n", "2", ".", " ", "R", " ", "A", ".", " ", "x", " ", "B", ".", " ", "y", " ", "C", ".", " ", "z", "\n", "#", "#", "#", "H", "\n", "\n", "\n", "0", "0", "3", ".", " ", "T">> }

DocTexts == TextsOf(DocLines, MaxLines) \cup LongDocTexts

\* the answer key of the specification's scenario
ScenarioKey ==
  <<"1", ".", " ", "B", "\n", "2", ")", " ", "A", ",", " ", "C", "\n", "3", " ", "D">>

KeyTexts == TextsOf(KeyLines, MaxKeyLines) \cup {ScenarioKey}

\* the answer keys applied to a parsed document
DocKeyTexts ==
  << <<"1", ".", " ", "B">>,
     <<"2", ")", " ", "A", ",", " ", "C", "\n", "1", " ", "e">>,
     <<"x">>,
     <<"1", "2", " ", " ", "a", "\n", "3", " ", "D">> >>

(***************************************************************************)
(* A pasted document through the core: parseMcq, then shuffles, key        *)
(* toggles and answer keys applied to the rows in any order.               *)
(***************************************************************************)
MaxToggled == 2
MaxFollowed == 4

InitDoc ==
  /\ input \in DocTexts
  /\ rows = <<>>
  /\ before = <<>>
  /\ argAfter = <<>>
  /\ op = "init"
  /\ vres = NoResult
  /\ answerKeyInput = <<>>
  /\ answerKey = <<>>
  /\ currentView = "import"
  /\ InitGen

\* parseMcq(input, formatSettings) of handleParse, without the validation
Parse ==
  /\ op = "init"
  /\ rows' = parseMcq(input)
  /\ op' = "parse"
  /\ UNCHANGED <<before, argAfter, vres, ui>>
  /\ UNCHANGED gen

Answers(r) == {i \in 1..Len(r) : r[i].type = "answer"}

Keyed(r) == {i \in Answers(r) : r[i].isKey}

\* the model follows any sequence of calls on a document of at most
\* MaxFollowed answers and a single call on a larger one
Followed ==
  \/ op = "parse"
  \/ op # "init" /\ Cardinality(Answers(rows)) <= MaxFollowed

\* shuffle(shuffledRows, mode) on parsed rows
ShuffleParsed(mode) ==
  /\ Followed
  /\ \E out \in shuffle(rows, Refs(rows), mode) :
       /\ rows' = Deref(out.heap, out.rows)
       /\ before' = rows
       /\ argAfter' = Deref(out.heap, Refs(rows))
       /\ op' = mode
       /\ UNCHANGED <<vres, ui>>
       /\ UNCHANGED gen

\* parsedRows.map(row => row.id === rowId ? { ...row, isKey: !row.isKey } : row)
toggleKey(parsedRows, rowId) ==
  [i \in 1..Len(parsedRows) |->
     IF parsedRows[i].id = rowId
       THEN [parsedRows[i] EXCEPT !.isKey = ~parsedRows[i].isKey]
       ELSE parsedRows[i]]

\* the checkbox of an Answer row; the model follows toggles that leave at
\* most MaxToggled answers keyed
ToggleKey(rowId) ==
  /\ Followed
  /\ \E i \in Answers(rows) : rows[i].id = rowId
  /\ Cardinality(Keyed(toggleKey(rows, rowId))) <= MaxToggled
  /\ rows' = toggleKey(rows, rowId)
  /\ before' = rows
  /\ argAfter' = rows
  /\ op' = "toggle"
  /\ UNCHANGED <<vres, ui>>
  /\ UNCHANGED gen

\* applyAnswerKey(rows, parseAnswerKey(text)) on the caller's own rows
ApplyKey(text) ==
  /\ Followed
  /\ LET keyMap == parseAnswerKey(text)
         out == applyAnswerKey(rows, Refs(rows), keyMap)
     IN /\ rows' = Deref(out.heap, out.rows)
        /\ before' = rows
        /\ argAfter' = Deref(out.heap, Refs(rows))
        /\ answerKeyInput' = text
        /\ answerKey' = keyMap
        /\ op' = "applyKey"
        /\ UNCHANGED <<vres, input, currentView>>
        /\ UNCHANGED gen

NextDoc ==
  \/ Parse
  \/ ShuffleParsed("sections")
  \/ ShuffleParsed("questions")
  \/ ShuffleParsed("answers")
  \/ \E rowId \in {rows[i].id : i \in 1..Len(rows)} : ToggleKey(rowId)
  \/ \E k \in 1..Len(DocKeyTexts) : ApplyKey(DocKeyTexts[k])

SpecDoc == InitDoc /\ [][NextDoc]_vars

(***************************************************************************)
(* An answer key text through parseAnswerKey.                              *)
(***************************************************************************)
InitKey ==
  /\ answerKeyInput \in KeyTexts
  /\ rows = <<>>
  /\ before = <<>>
  /\ argAfter = <<>>
  /\ op = "init"
  /\ vres = NoResult
  /\ input = <<>>
  /\ answerKey = <<>>
  /\ currentView = "import"
  /\ InitGen

\* parseAnswerKey(answerKeyInput) of handleParseAnswerKey
ParseKey ==
  /\ op = "init"
  /\ answerKey' = parseAnswerKey(answerKeyInput)
  /\ op' = "parseKey"
  /\ UNCHANGED <<rows, before, argAfter, vres, input, answerKeyInput, currentView>>
  /\ UNCHANGED gen

NextKey == ParseKey

SpecKey == InitKey /\ [][NextKey]_vars

(***************************************************************************)
(* The application: the store (src/unnamed/part_001) and the handlers of   *)
(* the views.  rows is the store's parsedRows.                             *)
(***************************************************************************)
\* the texts typed into the question box
AppTexts ==
  { <<"1", ".", " ", "Q", "1", "?", " ", "A", ".", " ", "a", "1", " ", "B", ".", " ", "a", "2", "\n", "2", ".", " ", "Q", "2", "?", " ", "A", ".", " ", "a", "1", " ", "B", ".", " ", "a", "2">>,
    <<"#", "#", "#", " ", "H", "\n", "\n", "1", ".", " ", "Q", " ", "*", "a", ")", " ", "x", " ", "b", ")", " ", "y">>,
    <<"3", ")", " ", "(", "p", ")", " ", "R">>,
    <<"i", "n", "t", "r", "o">>,
    <<"1", ".", " ", "Q", " ", "A", ".", " ", "x", " ", "C", ".", " ", "y">>,
    <<" ", "\n">> }

\* the texts typed into the answer key box
AppKeyTexts ==
  { <<"1", ".", " ", "B">>,
    <<"2", ")", " ", "A", ",", " ", "C", "\n", "1", " ", "e">>,
    <<"x">> }

Views == {"import", "generate", "answer-sheet", "settings"}

InitApp ==
  /\ rows = <<>>
  /\ before = <<>>
  /\ argAfter = <<>>
  /\ op = "init"
  /\ vres = NoResult
  /\ InitUi
  /\ InitGen

\* useMemo(() => validateParsedMcq(parsedRows), [parsedRows])
validationResult == validateParsedMcq(rows, Refs(rows)).result

\* the question box of the import view
setImportInput(text) ==
  /\ currentView = "import"
  /\ input' = text
  /\ op' = "input"
  /\ UNCHANGED <<rows, before, argAfter, vres, answerKeyInput, answerKey, currentView>>
  /\ UNCHANGED gen

\* the answer key box of the import view
setImportAnswerKeyInput(text) ==
  /\ currentView = "import"
  /\ answerKeyInput' = text
  /\ op' = "keyInput"
  /\ UNCHANGED <<rows, before, argAfter, vres, input, answerKey, currentView>>
  /\ UNCHANGED gen

handleParse ==
  /\ currentView = "import"
  /\ trim(input) # <<>>
  /\ \E parsed \in {parseMcq(input)} :
       LET out == validateParsedMcq(parsed, Refs(parsed))
       IN /\ rows' = Deref(out.heap, out.result.validatedRows)
          /\ vres' = [out.result EXCEPT !.validatedRows = Deref(out.heap, @)]
          /\ before' = parsed
          /\ argAfter' = Deref(out.heap, Refs(parsed))
  /\ op' = "parse"
  /\ UNCHANGED ui
  /\ UNCHANGED gen

\* applyAnswerKey([...parsedRows], answerKeyMap): a new array of the row
\* objects the store holds
handleParseAnswerKey ==
  /\ currentView = "import"
  /\ trim(answerKeyInput) # <<>>
  /\ Len(rows) # 0
  /\ LET answerKeyMap == parseAnswerKey(answerKeyInput)
         out == applyAnswerKey(rows, Refs(rows), answerKeyMap)
     IN /\ rows' = Deref(out.heap, out.rows)
        /\ before' = rows
        /\ argAfter' = Deref(out.heap, Refs(rows))
        /\ answerKey' = answerKeyMap
  /\ op' = "applyKey"
  /\ UNCHANGED <<vres, input, answerKeyInput, currentView>>
  /\ UNCHANGED gen

\* the checkbox of an Answer row of the table
handleToggleKey(rowId) ==
  /\ currentView = "import"
  /\ \E i \in Answers(rows) : rows[i].id = rowId
  /\ Cardinality(Keyed(toggleKey(rows, rowId))) <= MaxToggled
  /\ rows' = toggleKey(rows, rowId)
  /\ before' = rows
  /\ argAfter' = rows
  /\ op' = "toggle"
  /\ UNCHANGED <<vres, ui>>
  /\ UNCHANGED gen

\* the button is disabled unless validationResult.isValid
handleAccept ==
  /\ currentView = "import"
  /\ validationResult.isValid
  /\ Len(rows) # 0
  /\ currentView' = "generate"
  /\ op' = "accept"
  /\ UNCHANGED <<rows, before, argAfter, vres, input, answerKeyInput, answerKey>>
  /\ UNCHANGED gen

\* a tab of the container
onValueChange(value) ==
  /\ value # currentView
  /\ currentView' = value
  /\ op' = "tab"
  /\ UNCHANGED <<rows, before, argAfter, vres, input, answerKeyInput, answerKey>>
  /\ UNCHANGED gen

\* "Go to Import" of the generate view, shown while there are no rows
goToImport ==
  /\ currentView = "generate"
  /\ Len(rows) = 0
  /\ currentView' = "import"
  /\ op' = "goToImport"
  /\ UNCHANGED <<rows, before, argAfter, vres, input, answerKeyInput, answerKey>>
  /\ UNCHANGED gen

handleGenerateAnswerSheet ==
  /\ currentView = "generate"
  /\ Len(rows) # 0
  /\ examOutput' = previewOutput
  /\ storeAnswerKey' = previewKey
  /\ currentView' = "answer-sheet"
  /\ op' = "answerSheet"
  /\ UNCHANGED <<rows, before, argAfter, vres, input, answerKeyInput, answerKey>>
  /\ UNCHANGED <<shuffledRows, previewOutput, previewKey, questionsWithoutKeys,
                 formatSettings, examConfig, lockedAt>>

\* "Go to Generate" of the answer sheet view, shown while there are no rows
goToGenerate ==
  /\ currentView = "answer-sheet"
  /\ Len(rows) = 0
  /\ currentView' = "generate"
  /\ op' = "goToGenerate"
  /\ UNCHANGED <<rows, before, argAfter, vres, input, answerKeyInput, answerKey>>
  /\ UNCHANGED gen

NextApp ==
  \/ \E text \in AppTexts : setImportInput(text)
  \/ \E text \in AppKeyTexts : setImportAnswerKeyInput(text)
  \/ handleParse
  \/ handleParseAnswerKey
  \/ \E rowId \in {rows[i].id : i \in 1..Len(rows)} : handleToggleKey(rowId)
  \/ handleAccept
  \/ \E value \in Views : onValueChange(value)
  \/ goToImport
  \/ handleGenerateAnswerSheet
  \/ goToGenerate

SpecApp == InitApp /\ [][NextApp]_vars

(***************************************************************************)
(* The generator and the key check as functions of the rows: rows of any   *)
(* types with some answers keyed, a start number and question labels that  *)
(* count from a base.                                                      *)
(***************************************************************************)
MaxOutLen == 5
MaxOutKeys == 2

OutTypes == {"section", "question", "answer", "empty"}

\* the (start number, first question label) pairs of the inputs
OutNumbering == {<<1, 1>>, <<0, 0>>, <<99, 99>>, <<3, 1>>, <<-9, -9>>}

\* the formats of the exam: the initial one, the one of Reset to Defaults,
\* and lowercase answers with empty postfixes
OutFormats ==
  {initialExamConfig.format,
   [questionPrefix |-> << <<"(">>, <<>> >>,
    questionPostfix |-> << <<")">>, <<")", ".", " ">> >>,
    answerPrefix |-> << <<"(">>, <<>> >>,
    answerPostfix |-> << <<")">>, <<")", ".", " ">> >>,
    answerLowercase |-> FALSE],
   [questionPrefix |-> <<>>,
    questionPostfix |-> << <<>>, <<>> >>,
    answerPrefix |-> << <<>> >>,
    answerPostfix |-> <<>>,
    answerLowercase |-> TRUE]}

\* InputRows with the questions labelled base, base + 1, ...
OutRows(ts, K, base) ==
  LET r == InputRows(ts, {}, K)
  IN [i \in 1..Len(ts) |->
        IF ts[i] = "question"
          THEN [r[i] EXCEPT !.label = Str(toString(base + r[i].originalNumber - 1))]
          ELSE r[i]]

InitOut ==
  /\ \E n \in 0..MaxOutLen :
       \E ts \in [1..n -> OutTypes], nb \in OutNumbering :
         \E K \in SUBSET {i \in 1..n : ts[i] = "answer"} :
           /\ Cardinality(K) <= MaxOutKeys
           /\ rows = OutRows(ts, K, nb[2])
           /\ examConfig = [initialExamConfig EXCEPT !.startNumber = nb[1]]
  /\ before = <<>>
  /\ argAfter = <<>>
  /\ op = "init"
  /\ vres = NoResult
  /\ InitUi
  /\ shuffledRows = <<>>
  /\ previewOutput = <<>>
  /\ previewKey = <<>>
  /\ questionsWithoutKeys = <<>>
  /\ examOutput = <<>>
  /\ storeAnswerKey = <<>>
  /\ formatSettings = initialFormatSettings
  /\ lockedAt = <<>>

\* generateAnswerKey(rows, examConfig.startNumber)
GenerateAnswerKey ==
  /\ op = "init"
  /\ previewKey' = generateAnswerKey(rows, examConfig.startNumber)
  /\ op' = "generateAnswerKey"
  /\ UNCHANGED <<rows, before, argAfter, vres, ui, lockedAt>>
  /\ UNCHANGED <<shuffledRows, previewOutput, questionsWithoutKeys, examOutput,
                 storeAnswerKey, formatSettings, examConfig>>

\* generateExamOutput(rows, examConfig) under one of the formats
GenerateExamOutput ==
  /\ op = "init"
  /\ \E format \in OutFormats :
       /\ examConfig' = [examConfig EXCEPT !.format = format]
       /\ previewOutput' = generateExamOutput(rows, [examConfig EXCEPT !.format = format])
  /\ op' = "generateExamOutput"
  /\ UNCHANGED <<rows, before, argAfter, vres, ui, lockedAt>>
  /\ UNCHANGED <<shuffledRows, previewKey, questionsWithoutKeys, examOutput,
                 storeAnswerKey, formatSettings>>

\* findQuestionsWithoutKeys(rows)
FindQuestionsWithoutKeys ==
  /\ op = "init"
  /\ questionsWithoutKeys' = findQuestionsWithoutKeys(rows)
  /\ op' = "findQuestionsWithoutKeys"
  /\ UNCHANGED <<rows, before, argAfter, vres, ui, lockedAt>>
  /\ UNCHANGED <<shuffledRows, previewOutput, previewKey, examOutput,
                 storeAnswerKey, formatSettings, examConfig>>

\* the answer key that was generated is pasted as the answer key text and
\* applied: parseAnswerKey, then applyAnswerKey on the rows
ReapplyAnswerKey ==
  /\ op = "init"
  /\ \E key \in {generateAnswerKey(rows, examConfig.startNumber)} :
       \E map \in {parseAnswerKey(join(key, <<"\n">>))} :
         LET out == applyAnswerKey(rows, Refs(rows), map)
         IN /\ previewKey' = key
            /\ answerKeyInput' = join(key, <<"\n">>)
            /\ answerKey' = map
            /\ rows' = Deref(out.heap, out.rows)
            /\ before' = rows
            /\ argAfter' = Deref(out.heap, Refs(rows))
  /\ op' = "reapplyAnswerKey"
  /\ UNCHANGED <<vres, input, currentView, lockedAt>>
  /\ UNCHANGED <<shuffledRows, previewOutput, questionsWithoutKeys, examOutput,
                 storeAnswerKey, formatSettings, examConfig>>

NextOut ==
  \/ GenerateAnswerKey
  \/ GenerateExamOutput
  \/ FindQuestionsWithoutKeys
  \/ ReapplyAnswerKey

SpecOut == InitOut /\ [][NextOut]_vars

(***************************************************************************)
(* shuffleArray on its own: an array of at most MaxArr elements and locked  *)
(* indexes in any order, repeated or one past the end included.            *)
(***************************************************************************)
MaxArr == 4
MaxArrLocked == 2

InitArr ==
  /\ \E n \in 0..MaxArr :
       /\ rows \in [1..n -> 1..MaxArr]
       /\ lockedAt \in UNION {[1..k -> 1..(n + 1)] : k \in 0..MaxArrLocked}
  /\ before = <<>>
  /\ argAfter = <<>>
  /\ op = "init"
  /\ vres = NoResult
  /\ InitUi
  /\ shuffledRows = <<>>
  /\ previewOutput = <<>>
  /\ previewKey = <<>>
  /\ questionsWithoutKeys = <<>>
  /\ examOutput = <<>>
  /\ storeAnswerKey = <<>>
  /\ formatSettings = initialFormatSettings
  /\ examConfig = initialExamConfig

\* shuffleArray(array, lockedAt): the array is shuffled in place
ShuffleArray ==
  /\ op = "init"
  /\ rows' \in shuffleArray(rows, lockedAt)
  /\ before' = rows
  /\ op' = "shuffleArray"
  /\ UNCHANGED <<argAfter, vres, ui>>
  /\ UNCHANGED <<shuffledRows, previewOutput, previewKey, questionsWithoutKeys,
                 examOutput, storeAnswerKey, formatSettings, examConfig, lockedAt>>

NextArr == ShuffleArray

SpecArr == InitArr /\ [][NextArr]_vars

(***************************************************************************)
(* Inputs of the validator that reach whole documents: every sequence of   *)
(* at most MaxShort labels, and the sequences made of at most MaxPieces    *)
(* of the pieces below.                                                    *)
(***************************************************************************)
MaxShort == 5
MaxPieces == 3

DocLabels == {"S", "1", "A", "B", "C", "D", "E", ""}

Pieces ==
  << <<"S">>, <<"">>, <<"S", "">>,
     <<"1", "A", "B">>, <<"1", "A", "B", "">>,
     <<"12", "A", "B", "C", "">>, <<"1", "A", "B", "C", "D">>,
     <<"2", "A", "B", "C", "D", "E">>, <<"7", "A", "B", "C", "D", "E", "">>,
     <<"1", "A">>, <<"1", "A", "C">>, <<"B">>, <<"1", "B", "A">>,
     <<"1", "A", "B", "C", "E">> >>

InitLabels ==
  /\ \/ \E n \in 0..MaxShort :
          \E ls \in [1..n -> DocLabels] : rows = LabelledRows(ls, {}, 1)
     \/ \E n \in 1..MaxPieces :
          \E ps \in [1..n -> 1..Len(Pieces)] :
            rows = LabelledRows(Flat([k \in 1..n |-> Pieces[ps[k]]]), {}, 1)
  /\ before = <<>>
  /\ argAfter = <<>>
  /\ op = "init"
  /\ vres = NoResult
  /\ InitUi
  /\ InitGen

NextLabels == Validate

SpecLabels == InitLabels /\ [][NextLabels]_vars

(***************************************************************************)
(* The generate view (src/unnamed/part_003) and the answer sheet: rows is  *)
(* the store's parsedRows, rows the validator accepts; shuffledRows is the *)
(* view's own copy, which the shuffle buttons replace.  At most            *)
(* MaxViewMarks rows of an input of at most MaxViewRows rows are locked or *)
(* keyed.                                                                  *)
(***************************************************************************)
MaxViewPieces == 3
MaxViewRows == 9
MaxViewMarks == 2

\* the row types the accepted inputs are made of: a header with its empty
\* row, an empty row, questions of two or three answers with and without
\* the empty row after them
ViewPieces ==
  << <<"section", "empty">>, <<"empty">>,
     <<"question", "answer", "answer">>,
     <<"question", "answer", "answer", "empty">>,
     <<"question", "answer", "answer", "answer">>,
     <<"question", "answer", "answer", "answer", "empty">> >>

RECURSIVE SubsetsUpTo(_, _)
\* the subsets of S of at most m elements
SubsetsUpTo(S, m) ==
  IF m = 0 THEN {{}}
  ELSE LET P == SubsetsUpTo(S, m - 1)
       IN P \cup {T \cup {x} : T \in P, x \in S}

\* validateParsedMcq(r).isValid
Accepted(r) == validateParsedMcq(r, Refs(r)).result.isValid

ViewInput(r) ==
  \E n \in 1..MaxViewPieces :
    \E ps \in [1..n -> 1..Len(ViewPieces)] :
      LET ts == Flat([k \in 1..n |-> ViewPieces[ps[k]]])
      IN /\ Len(ts) <= MaxViewRows
         /\ Accepted(InputRows(ts, {}, {}))
         /\ \E L \in SubsetsUpTo(1..Len(ts), MaxViewMarks) :
              \E K \in SubsetsUpTo({i \in 1..Len(ts) : ts[i] = "answer"},
                                   MaxViewMarks - Cardinality(L)) :
                r = InputRows(ts, L, K)

\* the effect of lines 33-42: the previews are rebuilt when there are rows
previewOf(shuffledRows_, config, previous) ==
  IF Len(shuffledRows_) > 0
    THEN [output |-> generateExamOutput(shuffledRows_, config),
          key |-> generateAnswerKey(shuffledRows_, config.startNumber)]
    ELSE previous

InitView ==
  /\ ViewInput(rows)
  /\ shuffledRows = rows
  /\ examConfig \in {initialExamConfig, [initialExamConfig EXCEPT !.startNumber = 4]}
  /\ previewOutput = previewOf(rows, examConfig, [output |-> <<>>, key |-> <<>>]).output
  /\ previewKey = previewOf(rows, examConfig, [output |-> <<>>, key |-> <<>>]).key
  /\ currentView = "generate"
  /\ before = <<>>
  /\ argAfter = <<>>
  /\ op = "init"
  /\ vres = NoResult
  /\ input = <<>>
  /\ answerKeyInput = <<>>
  /\ answerKey = <<>>
  /\ questionsWithoutKeys = <<>>
  /\ examOutput = <<>>
  /\ storeAnswerKey = <<>>
  /\ formatSettings = initialFormatSettings
  /\ lockedAt = <<>>

\* the shuffle buttons: shuffle(shuffledRows, mode) replaces the view's
\* rows, and the previews follow; the model follows repeated shuffles on
\* at most MaxLen rows and a single shuffle on more
ShuffleView(mode) ==
  /\ currentView = "generate"
  /\ Len(rows) # 0
  /\ op = "init" \/ Len(shuffledRows) <= MaxLen
  /\ \E out \in shuffle(shuffledRows, Refs(shuffledRows), mode) :
       \E result \in {Deref(out.heap, out.rows)} :
         /\ shuffledRows' = result
         /\ before' = shuffledRows
         /\ argAfter' = Deref(out.heap, Refs(shuffledRows))
         /\ previewOutput' = previewOf(result, examConfig,
                                       [output |-> previewOutput, key |-> previewKey]).output
         /\ previewKey' = previewOf(result, examConfig,
                                    [output |-> previewOutput, key |-> previewKey]).key
  /\ op' = mode
  /\ UNCHANGED <<rows, vres, ui>>
  /\ UNCHANGED <<questionsWithoutKeys, examOutput, storeAnswerKey, formatSettings,
                 examConfig, lockedAt>>

viewShuffleSections == ShuffleView("sections")

viewShuffleQuestions == ShuffleView("questions")

viewShuffleAnswers == ShuffleView("answers")

NextView ==
  \/ viewShuffleSections
  \/ viewShuffleQuestions
  \/ viewShuffleAnswers
  \/ handleGenerateAnswerSheet

SpecView == InitView /\ [][NextView]_vars

(***************************************************************************)
(* The settings of the store: the format fields and the exam options as    *)
(* the import view and the settings view write them.                       *)
(***************************************************************************)
MaxStartNumber == 2

\* what is typed into a prefix or postfix field
SettingTexts == {<<>>, <<"(">>, <<")">>}

\* { ...a, ...b }: the fields of b over those of a
spread(a, b) ==
  [k \in DOMAIN a \cup DOMAIN b |-> IF k \in DOMAIN b THEN b[k] ELSE a[k]]

\* array[1] || fallback: the second element of a field unless it is empty
second(array, fallback) ==
  IF Len(array) >= 2 /\ array[2] # <<>> THEN array[2] ELSE fallback

\* setFormatSettings(settings): formatSettings and examConfig.format both
\* become the merged settings
setFormatSettings(fs, ec, settings) ==
  LET newSettings == spread(fs, settings)
  IN [formatSettings |-> newSettings,
      examConfig |-> spread(ec, [format |-> newSettings])]

\* setExamConfig(config)
setExamConfig(ec, config) == spread(ec, config)

\* the partial settings the inputs of the import view send
ImportFormatInputs ==
  {[questionPrefix |-> <<t, <<>> >>] : t \in SettingTexts}
    \cup {[questionPostfix |-> <<t, <<")", ".", " ">> >>] : t \in SettingTexts}
    \cup {[answerPrefix |-> <<t, <<>> >>] : t \in SettingTexts}
    \cup {[answerPostfix |-> <<t, <<")", ".", " ">> >>] : t \in SettingTexts}

\* the partial settings the inputs of the settings view send: the second
\* element is kept unless it is empty
SettingsFormatInputs(fs) ==
  {[questionPrefix |-> <<t, second(fs.questionPrefix, <<>>)>>] : t \in SettingTexts}
    \cup {[questionPostfix |-> <<t, second(fs.questionPostfix, <<")", ".", " ">>)>>] :
            t \in SettingTexts}
    \cup {[answerPrefix |-> <<t, second(fs.answerPrefix, <<>>)>>] : t \in SettingTexts}
    \cup {[answerPostfix |-> <<t, second(fs.answerPostfix, <<")", ".", " ">>)>>] :
            t \in SettingTexts}
    \cup {[answerLowercase |-> b] : b \in BOOLEAN}

\* the partial configurations the inputs of the settings view send; an
\* empty or zero start number becomes 1
ExamConfigInputs ==
  {[startNumber |-> IF n = 0 THEN 1 ELSE n] : n \in 0..MaxStartNumber}
    \cup {[shuffleSections |-> b] : b \in BOOLEAN}
    \cup {[shuffleQuestions |-> b] : b \in BOOLEAN}
    \cup {[shuffleAnswers |-> b] : b \in BOOLEAN}

\* the values handleReset writes to the format
resetFormat ==
  [questionPrefix |-> << <<"(">>, <<>> >>,
   questionPostfix |-> << <<")">>, <<")", ".", " ">> >>,
   answerPrefix |-> << <<"(">>, <<>> >>,
   answerPostfix |-> << <<")">>, <<")", ".", " ">> >>,
   answerLowercase |-> FALSE]

\* the options handleReset writes; format is the formatSettings of the
\* render the handler was created in
resetConfig(renderedFormatSettings) ==
  [shuffleSections |-> FALSE,
   shuffleQuestions |-> FALSE,
   shuffleAnswers |-> FALSE,
   startNumber |-> 1,
   format |-> renderedFormatSettings]

InitSettings ==
  /\ rows = <<>>
  /\ before = <<>>
  /\ argAfter = <<>>
  /\ op = "init"
  /\ vres = NoResult
  /\ InitUi
  /\ InitGen

\* an input of a format field, in the import view or the settings view
SetFormatSettings ==
  /\ \E settings \in ImportFormatInputs \cup SettingsFormatInputs(formatSettings) :
       LET next == setFormatSettings(formatSettings, examConfig, settings)
       IN /\ formatSettings' = next.formatSettings
          /\ examConfig' = next.examConfig
  /\ op' = "setFormatSettings"
  /\ UNCHANGED <<rows, before, argAfter, vres, ui>>
  /\ UNCHANGED <<shuffledRows, previewOutput, previewKey, questionsWithoutKeys,
                 examOutput, storeAnswerKey, lockedAt>>

\* an input of the exam options in the settings view
SetExamConfig ==
  /\ \E config \in ExamConfigInputs :
       examConfig' = setExamConfig(examConfig, config)
  /\ op' = "setExamConfig"
  /\ UNCHANGED <<rows, before, argAfter, vres, ui>>
  /\ UNCHANGED <<shuffledRows, previewOutput, previewKey, questionsWithoutKeys,
                 examOutput, storeAnswerKey, formatSettings, lockedAt>>

\* Reset to Defaults: setFormatSettings, then setExamConfig with the
\* formatSettings the view was rendered with
handleReset ==
  /\ LET afterFormat == setFormatSettings(formatSettings, examConfig, resetFormat)
     IN /\ formatSettings' = afterFormat.formatSettings
        /\ examConfig' = setExamConfig(afterFormat.examConfig,
                                       resetConfig(formatSettings))
  /\ op' = "handleReset"
  /\ UNCHANGED <<rows, before, argAfter, vres, ui>>
  /\ UNCHANGED <<shuffledRows, previewOutput, previewKey, questionsWithoutKeys,
                 examOutput, storeAnswerKey, lockedAt>>

\* resetAll(): the store is its initial state again
resetAll ==
  /\ op # "init"
  /\ rows' = <<>>
  /\ input' = <<>>
  /\ answerKeyInput' = <<>>
  /\ answerKey' = <<>>
  /\ currentView' = "import"
  /\ examOutput' = <<>>
  /\ storeAnswerKey' = <<>>
  /\ formatSettings' = initialFormatSettings
  /\ examConfig' = initialExamConfig
  /\ op' = "resetAll"
  /\ UNCHANGED <<before, argAfter, vres, shuffledRows, previewOutput, previewKey,
                 questionsWithoutKeys, lockedAt>>

NextSettings ==
  \/ SetFormatSettings
  \/ SetExamConfig
  \/ handleReset
  \/ resetAll

SpecSettings == InitSettings /\ [][NextSettings]_vars

(***************************************************************************)
(* Vocabulary of the properties: rows by value, segments as the            *)
(* specification describes them.                                           *)
(***************************************************************************)
Shuffled == op \in {"sections", "questions", "answers"}

\* the same row, whatever its label
SameRow(a, b) == [a EXCEPT !.label = ""] = [b EXCEPT !.label = ""]

\* the index of the row of r that opens the section row i is in: the last
\* Section row at or before i, the first row when there is none
SectionStart(r, i) ==
  LET S == {j \in 1..i : j = 1 \/ r[j].type = "section"}
  IN CHOOSE j \in S : \A k \in S : k <= j

\* the sections of r: contiguous runs from a Section row, or from the start,
\* up to the next Section row
Sections(r) ==
  LET starts == Ascending({i \in 1..Len(r) : SectionStart(r, i) = i})
  IN [k \in 1..Len(starts) |->
        SubSeq(r, starts[k],
               IF k < Len(starts) THEN starts[k + 1] - 1 ELSE Len(r))]

\* row i of r is in the question block opened by the Question row q
InBlockOf(r, q, i) ==
  /\ q <= i
  /\ r[q].type = "question"
  /\ \A m \in (q + 1)..i : r[m].type \notin {"question", "section"}

\* the number of Question rows of r from the start of row i's section to i
QuestionOrdinal(r, i) ==
  Cardinality({j \in SectionStart(r, i)..i : r[j].type = "question"})

\* the number of Section rows of r up to row i
SectionOrdinal(r, i) ==
  Cardinality({j \in 1..i : r[j].type = "section"})

RECURSIVE Arranged(_, _, _, _, _)
\* rest is the segments segs[c], c in unused, one after the other in some
\* order, the segment at ordinal k being segs[k] whenever k is pinned
Arranged(rest, segs, unused, k, pinned) ==
  IF unused = {} THEN rest = <<>>
  ELSE \E c \in unused :
         /\ (c \in pinned \/ k \in pinned) => c = k
         /\ Len(segs[c]) <= Len(rest)
         /\ SubSeq(rest, 1, Len(segs[c])) = segs[c]
         /\ Arranged(SubSeq(rest, Len(segs[c]) + 1, Len(rest)), segs,
                     unused \ {c}, k + 1, pinned)

IsArrangement(result, segs, pinned) ==
  Arranged(result, segs, 1..Len(segs), 1, pinned)

LockedSections(r) ==
  {k \in 1..Len(Sections(r)) : Sections(r)[k][1].locked}

\* the rows a shuffle is said to pin: locked Section rows for sections,
\* locked Question rows for questions, locked rows of a question block for
\* answers
Pinnable(mode, r, i) ==
  /\ r[i].locked
  /\ CASE mode = "sections" -> r[i].type = "section"
       [] mode = "questions" -> r[i].type = "question"
       [] mode = "answers" -> \E q \in 1..i : InBlockOf(r, q, i)
       [] OTHER -> FALSE

(***************************************************************************)
(* C1 as stated: after a shuffle every pinnable locked row of the input is *)
(* at the same index of the result.                                        *)
(***************************************************************************)
C1_LockedRowsKeepIndex ==
  Shuffled =>
    \A i \in 1..Len(before) :
      Pinnable(op, before, i) => i <= Len(rows) /\ SameRow(rows[i], before[i])

(***************************************************************************)
(* C1 amended: a locked element keeps its ordinal position at the          *)
(* granularity of the shuffle.  shuffleSections returns the sections in    *)
(* some order with every section whose first row is locked at its ordinal  *)
(* position; after shuffleQuestions a locked Question row is in the same   *)
(* section and has the same ordinal among the Question rows of that        *)
(* section; after shuffleAnswers a locked row of a question block that is  *)
(* returned is at the same offset from its Question row.                   *)
(***************************************************************************)
C1_LockedKeepOrdinal ==
  /\ op = "sections" =>
       IsArrangement(rows, Sections(before), LockedSections(before))
  /\ op = "questions" =>
       \A i \in 1..Len(before) :
         Pinnable(op, before, i) =>
           \E j \in 1..Len(rows) :
             /\ rows[j] = before[i]
             /\ SectionOrdinal(rows, j) = SectionOrdinal(before, i)
             /\ QuestionOrdinal(rows, j) = QuestionOrdinal(before, i)
  /\ op = "answers" =>
       \A q \in 1..Len(before), i \in 1..Len(before) :
         (before[i].locked /\ InBlockOf(before, q, i)) =>
           \A j \in 1..Len(rows) :
             SameRow(rows[j], before[i]) =>
               \E jq \in 1..j :
                 SameRow(rows[jq], before[q]) /\ j - jq = i - q

\* a locked answer stayed in place while the answers around it moved
C1_Witness ==
  /\ op = "answers"
  /\ Len(rows) = Len(before)
  /\ \E i \in 1..Len(before) :
       /\ before[i].locked /\ before[i].type = "answer"
       /\ SameRow(rows[i], before[i])
       /\ \E a \in 1..(i - 1), b \in (i + 1)..Len(before) :
            SameRow(rows[a], before[b]) /\ SameRow(rows[b], before[a])

(***************************************************************************)
(* Relettering.                                                            *)
(***************************************************************************)
\* the letters an unbounded A, B, C, ... sequence goes through
alphabet == <<"A", "B", "C", "D", "E", "F", "G", "H", "I", "J">>

\* the indexes of the Answer rows of r that follow the Question row q, up to
\* the next Question row, in document order
AnswersAfter(r, q) ==
  Ascending({i \in (q + 1)..Len(r) :
               /\ r[i].type = "answer"
               /\ \A m \in (q + 1)..i : r[m].type # "question"})

(***************************************************************************)
(* C2: after shuffleAnswers the answers that follow a Question row are     *)
(* lettered A, B, C, ... without gap or repeat, however many they are.     *)
(***************************************************************************)
C2_LettersInOrder ==
  op = "answers" =>
    \A q \in 1..Len(rows) :
      rows[q].type = "question" =>
        LET ans == AnswersAfter(rows, q)
        IN \A k \in 1..Len(ans) : rows[ans[k]].label = alphabet[k]

\* what reletterAnswers assigns: the first five answers that follow a Question
\* row are lettered A, B, C, D, E in document order, every answer from the
\* sixth on is lettered A
LettersInOrderUpToFive ==
  op = "answers" =>
    \A q \in 1..Len(rows) :
      rows[q].type = "question" =>
        LET ans == AnswersAfter(rows, q)
        IN \A k \in 1..Len(ans) :
             rows[ans[k]].label = IF k <= Len(letters) THEN letters[k] ELSE "A"

\* a question whose answers were reordered, one of them getting a new letter
AnswerRelettered ==
  /\ op = "answers"
  /\ \E q \in 1..Len(rows) :
       /\ rows[q].type = "question"
       /\ Len(AnswersAfter(rows, q)) >= 3
       /\ \E i \in 1..Len(rows), j \in 1..Len(before) :
            /\ InBlockOf(rows, q, i)
            /\ rows[i].type = "answer"
            /\ SameRow(rows[i], before[j])
            /\ i # j
            /\ rows[i].label # before[j].label

(***************************************************************************)
(* Questions and their answers.                                            *)
(***************************************************************************)
\* the indexes of the Question rows of r, in document order
QuestionIndexes(r) == Ascending({i \in 1..Len(r) : r[i].type = "question"})

QuestionRows(r) == [k \in 1..Len(QuestionIndexes(r)) |-> r[QuestionIndexes(r)[k]]]

\* how many of the answers of the Question row q of r carry text t and key b
AnswerCount(r, q, t, b) ==
  LET ans == AnswersAfter(r, q)
  IN Cardinality({k \in 1..Len(ans) : r[ans[k]].text = t /\ r[ans[k]].isKey = b})

NoneLocked(r) == \A i \in 1..Len(r) : ~r[i].locked

(***************************************************************************)
(* C3: for an input without locked rows shuffleAnswers returns the same    *)
(* Question rows in the same order, and each question has the same         *)
(* multiset of (answer text, isKey) pairs as before.                       *)
(***************************************************************************)
C3_AnswersKeepTextAndKey ==
  (op = "answers" /\ NoneLocked(before)) =>
    /\ QuestionRows(rows) = QuestionRows(before)
    /\ \A k \in 1..Len(QuestionIndexes(before)) :
         \A t \in {texts[i] : i \in 1..Len(texts)}, b \in BOOLEAN :
           AnswerCount(rows, QuestionIndexes(rows)[k], t, b)
             = AnswerCount(before, QuestionIndexes(before)[k], t, b)

(***************************************************************************)
(* C4: each shuffle returns a result for every row sequence, and the rows  *)
(* passed in are afterwards what they were: same rows, same order, every   *)
(* field as before the call.                                               *)
(***************************************************************************)
C4_InputUnchanged ==
  /\ op = "init" =>
       \A mode \in {"sections", "questions", "answers"} :
         shuffle(rows, Refs(rows), mode) # {}
  /\ Shuffled => argAfter = before

\* shuffleAnswers gave an answer a new letter in its result
C4_Witness ==
  /\ op = "answers"
  /\ argAfter = before
  /\ \E i \in 1..Len(rows), j \in 1..Len(before) :
       /\ rows[i].type = "answer"
       /\ SameRow(rows[i], before[j])
       /\ rows[i].label # before[j].label

(***************************************************************************)
(* C5: shuffleSections returns the sections of its input, each exactly     *)
(* once and with its rows in their order, one after the other in some      *)
(* order; a section whose first row is locked is at its ordinal position.  *)
(***************************************************************************)
C5_WholeSectionsMove ==
  op = "sections" =>
    LET segs == Sections(before)
    IN Arranged(rows, segs, 1..Len(segs), 1,
                {k \in 1..Len(segs) : segs[k][1].locked})

\* three or more sections, a locked one among them, and the others moved
C5_Witness ==
  /\ op = "sections"
  /\ Len(Sections(before)) >= 3
  /\ LockedSections(before) # {}
  /\ rows # before


(***************************************************************************)
(* Questions inside their section.                                         *)
(***************************************************************************)
\* the Section rows of r, in document order
SectionRows(r) ==
  LET idx == Ascending({i \in 1..Len(r) : r[i].type = "section"})
  IN [k \in 1..Len(idx) |-> r[idx[k]]]

\* the Question rows of r between the k-th Section row and the next one
\* (k = 0: before the first Section row)
QuestionsOfSection(r, k) ==
  {r[i] : i \in {j \in 1..Len(r) :
                   r[j].type = "question" /\ SectionOrdinal(r, j) = k}}

\* the Answer rows of the question block opened by the Question row q of r,
\* in document order
BlockAnswers(r, q) ==
  LET idx == Ascending({i \in q..Len(r) :
                          InBlockOf(r, q, i) /\ r[i].type = "answer"})
  IN [k \in 1..Len(idx) |-> r[idx[k]]]

(***************************************************************************)
(* C6: after shuffleQuestions the Section rows are in the same order, each *)
(* Section row is still followed by the row that followed it (its header   *)
(* pair), the set of Question rows between two consecutive Section rows is *)
(* the same, and every Question row is followed by the same Answer rows,   *)
(* in the same order and with the same labels.                             *)
(***************************************************************************)
C6_QuestionsStayInSection ==
  op = "questions" =>
    /\ SectionRows(rows) = SectionRows(before)
    /\ \A i \in 1..Len(before) :
         before[i].type = "section" =>
           \E j \in 1..Len(rows) :
             /\ rows[j] = before[i]
             /\ SectionOrdinal(rows, j) = SectionOrdinal(before, i)
             /\ (i < Len(before) /\ before[i + 1].type # "section") =>
                  (j < Len(rows) /\ rows[j + 1] = before[i + 1])
    /\ \A k \in 0..Len(SectionRows(before)) :
         QuestionsOfSection(rows, k) = QuestionsOfSection(before, k)
    /\ \A q \in 1..Len(before) :
         before[q].type = "question" =>
           \E p \in 1..Len(rows) :
             /\ rows[p] = before[q]
             /\ BlockAnswers(rows, p) = BlockAnswers(before, q)


(***************************************************************************)
(* The frame of shuffleAnswers.                                            *)
(***************************************************************************)
\* row i of r is the Empty row that ends a question block
TrailingEmpty(r, i) ==
  /\ r[i].type = "empty"
  /\ \E q \in 1..i : InBlockOf(r, q, i)
  /\ i = Len(r) \/ r[i + 1].type \in {"question", "section"}

(***************************************************************************)
(* C7: after shuffleAnswers every Section row, every Question row and the  *)
(* Empty row that ends a question block is at the index it had in the      *)
(* input.                                                                  *)
(***************************************************************************)
C7_AnswersFrame ==
  op = "answers" =>
    \A i \in 1..Len(before) :
      (before[i].type \in {"section", "question"} \/ TrailingEmpty(before, i))
        => (i <= Len(rows) /\ rows[i] = before[i])


(***************************************************************************)
(* C8: every row a shuffle returns is a row of its input with the same id, *)
(* type, text, isKey, locked and originalNumber; its label is the same     *)
(* too unless it is an Answer row returned by shuffleAnswers.  Holding of  *)
(* every call, it holds of every sequence of calls.                        *)
(***************************************************************************)
C8_RowContentKept ==
  Shuffled =>
    \A i \in 1..Len(rows) :
      \E j \in 1..Len(before) :
        /\ rows[i].id = before[j].id
        /\ rows[i].type = before[j].type
        /\ rows[i].text = before[j].text
        /\ rows[i].isKey = before[j].isKey
        /\ rows[i].locked = before[j].locked
        /\ rows[i].originalNumber = before[j].originalNumber
        /\ (rows[i].label # before[j].label) =>
             (op = "answers" /\ rows[i].type = "answer")

\* a call on rows that an earlier call had moved relettered an answer that
\* is a key, a locked row being among the rows
C8_Witness ==
  /\ op = "answers"
  /\ \E i \in 1..Len(before) : before[i].id # i
  /\ \E i \in 1..Len(rows), j \in 1..Len(before) :
       /\ rows[i].type = "answer"
       /\ rows[i].isKey
       /\ SameRow(rows[i], before[j])
       /\ rows[i].label # before[j].label
  /\ \E i \in 1..Len(rows) : rows[i].locked


(***************************************************************************)
(* The validator.                                                          *)
(***************************************************************************)
Validated == op = "validate"

\* the label of row k of r; a row that is absent reads as the empty label
NeighbourLabel(r, k) == IF k \in 1..Len(r) THEN r[k].label ELSE ""

\* the letter before and the letter after an answer letter
LetterBefore(l) == CASE l = "B" -> "A" [] l = "C" -> "B" [] l = "D" -> "C" [] l = "E" -> "D"
LetterAfter(l) == CASE l = "A" -> "B" [] l = "B" -> "C" [] l = "C" -> "D" [] l = "D" -> "E"

\* what the label of row i of r needs of the labels around it
RuleKept(r, i) ==
  LET l == r[i].label
      p == NeighbourLabel(r, i - 1)
      n == NeighbourLabel(r, i + 1)
      nn == NeighbourLabel(r, i + 2)
  IN CASE l = "S" -> p = "" /\ n = "" /\ isNum(nn)
       [] l = "" -> p # "A" /\ ~isNum(p) /\ n \notin {"A", "B", "C", "D", "E"}
       [] isNum(l) -> p = "" /\ n = "A"
       [] l = "A" -> isNum(p) /\ n = LetterAfter(l)
       [] l \in {"B", "C", "D"} -> p = LetterBefore(l) /\ n \in {LetterAfter(l), ""}
       [] l = "E" -> p = LetterBefore(l) /\ n = ""
       [] OTHER -> TRUE

(***************************************************************************)
(* C9: validateParsedMcq returns as many rows as it was given, and row i   *)
(* of the result is Error exactly when row i of the input was Error or its *)
(* label breaks its rule; the rule of a row reads the labels of the rows   *)
(* before it, after it and two after it, a row that is absent reading as   *)
(* the empty label.                                                        *)
(***************************************************************************)
C9_ErrorIffRuleBroken ==
  Validated =>
    /\ Len(rows) = Len(before)
    /\ \A i \in 1..Len(before) :
         rows[i].type = "error"
           <=> (before[i].type = "error" \/ ~RuleKept(before, i))

\* a Question row directly after an Answer row was marked Error
C9_Witness ==
  /\ Validated
  /\ \E i \in 2..Len(before) :
       /\ before[i - 1].type = "answer"
       /\ before[i].type = "question"
       /\ rows[i].type = "error"

\* the indexes of the Error rows of r
ErrorIndexes(r) == {i \in 1..Len(r) : r[i].type = "error"}

(***************************************************************************)
(* C10: validateParsedMcq reports valid exactly when no returned row is    *)
(* Error, and when it is not valid firstErrorRowId is the id of the first  *)
(* Error row of the returned rows, whatever the ids.                       *)
(***************************************************************************)
C10_FirstErrorReported ==
  Validated =>
    LET errors == ErrorIndexes(vres.validatedRows)
    IN /\ vres.isValid <=> errors = {}
       /\ ~vres.isValid =>
            \E i \in errors :
              /\ \A j \in errors : i <= j
              /\ vres.firstErrorRowId = vres.validatedRows[i].id


(***************************************************************************)
(* C11: validateParsedMcq leaves the rows it was given as they were and    *)
(* returns as many rows in the same order; a returned row differs from the *)
(* row it was given in its type at most, a type changes only from a type   *)
(* other than Error to Error, and a row given as Error is returned Error.  *)
(***************************************************************************)
C11_ValidationCopies ==
  Validated =>
    /\ argAfter = before
    /\ Len(rows) = Len(before)
    /\ \A i \in 1..Len(before) :
         /\ [rows[i] EXCEPT !.type = before[i].type] = before[i]
         /\ rows[i].type # before[i].type =>
              (before[i].type # "error" /\ rows[i].type = "error")
         /\ before[i].type = "error" => rows[i].type = "error"

\* a row was marked Error in the copy and is what it was in the input, next
\* to a row that was Error already
C11_Witness ==
  /\ Validated
  /\ \E i \in 1..Len(before) :
       before[i].type # "error" /\ rows[i].type = "error"
         /\ argAfter[i].type = before[i].type
  /\ \E i \in 1..Len(before) : before[i].type = "error"

\* the types of the rows of r, in order
Kinds(r) == [i \in 1..Len(r) |-> r[i].type]

(***************************************************************************)
(* C12: validating the rows a validation returned returns rows of the same *)
(* type at every position, and the same valid flag.                        *)
(***************************************************************************)
C12_ValidationIdempotent ==
  [][(Validated /\ Validated') =>
       (Kinds(rows') = Kinds(rows) /\ vres'.isValid = vres.isValid)]_vars

\* the rows of a validation, two or more of them Error by their labels, were
\* validated again
C12_Witness ==
  /\ Validated
  /\ before = vres.validatedRows
  /\ Cardinality({i \in 1..Len(before) :
                    before[i].type = "error" /\ ~RuleKept(before, i)}) >= 2


(***************************************************************************)
(* The application and the parser.                                         *)
(***************************************************************************)
\* C13: over any sequence of user actions the current view becomes
\* 'generate' only when the stored parsed rows are non-empty and their
\* validation reports valid
C13_GenerateOnlyWhenValid ==
  [][(currentView' = "generate" /\ currentView # "generate") =>
       (Len(rows) # 0 /\ validationResult.isValid)]_vars


\* the blocks parseMcq splits a text into
blocksOf(text) ==
  LET normalized == replaceLineEndings(trim(text))
      match == blockStartPattern(normalized, 1)
  IN IF match.ok THEN SplitBlocks(normalized, match) ELSE <<>>

IsQuestionBlock(block) == block.type = "question"

IsBlockHead(row) == row.type \in {"question", "error"}

\* block texts, with and without a leading question number
BlockSamples ==
  { <<"x">>,
    <<"A", ".", " ", "a">>,
    <<>>,
    <<"1", ".", " ", "Q", " ", "A", ".", " ", "x">>,
    <<"(", "1", ")", " ", "Q", " ">>,
    <<"1", "2", "3", "4", ".", " ", "x", "\n">>,
    <<".", " ", "1">>,
    <<"#", "#", "#", " ", "H">> }

QuestionBlock(text) == [text |-> text, type |-> "question", match |-> NoMatch]

Types(r) == [i \in 1..Len(r) |-> r[i].type]

\* C14: parseMcq returns rows for every text; each question block gives
\* its own Question row, or, where its parsing fails, exactly one Error row
\* labelled "error" holding the whole block text and one Empty row, and the
\* blocks after a failed one are parsed as they are on their own
C14_ParseNeverFails ==
  /\ op = "parse" =>
       /\ \A i \in 1..Len(rows) : rows[i].type \in ParsedRowType /\ rows[i].id = i
       /\ LET qs == SelectSeq(blocksOf(input), IsQuestionBlock)
              hs == SelectSeq(rows, IsBlockHead)
          IN /\ Len(hs) = Len(qs)
             /\ \A k \in 1..Len(qs) :
                  IF parseQuestionBlockFlexible(qs[k].text, 0).ok
                    THEN /\ hs[k].type = "question"
                         /\ hs[k].label = Str(questionMatch(qs[k].text).number)
                    ELSE /\ hs[k].type = "error"
                         /\ hs[k].label = "error"
                         /\ hs[k].text = Str(qs[k].text)
  /\ op = "init" =>
       \A t, u \in BlockSamples :
         LET out == ProcessBlocks(<<QuestionBlock(t), QuestionBlock(u)>>, 1, <<>>)
             alone == ProcessBlocks(<<QuestionBlock(u)>>, 1, <<>>)
         IN ~parseQuestionBlockFlexible(t, 0).ok =>
              /\ Len(out) = 2 + Len(alone)
              /\ out[1] = createRow(1, "error", "error", Str(t), Undefined)
              /\ out[2] = createRow(2, "empty", "", "", Undefined)
              /\ \A i \in 1..Len(alone) : out[2 + i] = [alone[i] EXCEPT !.id = 2 + i]

\* a text of several blocks has been parsed, a question block after another
C14_Witness ==
  /\ op = "parse"
  /\ Len(SelectSeq(blocksOf(input), IsQuestionBlock)) >= 2
  /\ Len(SelectSeq(rows, IsBlockHead)) >= 2


ScenarioText ==
  <<"1", ".", " ", "Q", "1", "?", " ", "A", ".", " ", "a", "1", " ", "B", ".", " ", "a", "2", "\n", "2", ".", " ", "Q", "2", "?", " ", "A", ".", " ", "a", "1", " ", "B", ".", " ", "a", "2">>

Labels(r) == [i \in 1..Len(r) |-> r[i].label]

Texts(r) == [i \in 1..Len(r) |-> r[i].text]

\* the two question blocks of the scenario, from row k on
ScenarioBlocksAt(r, k) ==
  /\ Len(r) >= k + 6
  /\ SubSeq(Types(r), k, k + 6) =
       <<"question", "answer", "answer", "empty", "question", "answer", "answer">>
  /\ SubSeq(Labels(r), k, k + 6) = <<"1", "A", "B", "", "2", "A", "B">>

\* C15 as stated: the scenario text parses to an implicit Section row and
\* an Empty row, then Question "1" with Answers A and B, one Empty row,
\* Question "2" with Answers A and B
C15_ScenarioWithHeader ==
  (op = "parse" /\ input = ScenarioText) =>
    /\ Len(rows) >= 2
    /\ rows[1].type = "section"
    /\ rows[2].type = "empty"
    /\ ScenarioBlocksAt(rows, 3)
    /\ Cardinality({i \in 1..Len(rows) : rows[i].type = "question"}) = 2
    /\ Cardinality({i \in 1..Len(rows) : rows[i].type = "answer"}) = 4

\* C15 amended: the scenario text parses to exactly eight rows, Question
\* "1" with Answers A and B, one Empty row, Question "2" with Answers A and
\* B, one Empty row; no Section row precedes them
C15_ScenarioRows ==
  (op = "parse" /\ input = ScenarioText) =>
    /\ Len(rows) = 8
    /\ ScenarioBlocksAt(rows, 1)
    /\ rows[8].type = "empty"
    /\ Texts(rows) = <<"Q1?", "a1", "a2", "", "Q2?", "a1", "a2", "">>
    /\ \A i \in 1..8 : rows[i].id = i /\ ~rows[i].isKey /\ ~rows[i].locked

C15_Witness == op = "parse" /\ input = ScenarioText /\ Len(rows) = 8


RECURSIVE BlockEnd(_, _)
\* the index after the Answer rows that follow row i
BlockEnd(r, i) ==
  IF i < Len(r) /\ r[i + 1].type = "answer" THEN BlockEnd(r, i + 1) ELSE i + 1

IsHead(row) == row.type \in {"question", "error", "section"}

\* the question block that starts at row i (a Question row with the Answer
\* rows after it, or an Error row) is followed by one Empty row and then by
\* a Question, Error or Section row or by the end of the rows
ClosedByOneEmpty(r, i) ==
  LET j == IF r[i].type = "question" THEN BlockEnd(r, i) ELSE i + 1
  IN /\ j <= Len(r)
     /\ r[j].type = "empty"
     /\ j < Len(r) => IsHead(r[j + 1])

\* C16: in the rows parseMcq returns and after any sequence of shuffles of
\* them, every question block is followed by exactly one Empty row before
\* the next Question, Error or Section row or the end of the rows
C16_BlocksClosedByOneEmpty ==
  op # "init" =>
    \A i \in 1..Len(rows) : IsBlockHead(rows[i]) => ClosedByOneEmpty(rows, i)


\* a shuffle has rearranged parsed rows of at least two question blocks
C16_Witness ==
  /\ Shuffled
  /\ rows # before
  /\ Cardinality({i \in 1..Len(rows) : IsBlockHead(rows[i])}) >= 2
  /\ \E i \in 1..Len(rows) : rows[i].type = "section"


\* C17: in every row sequence reached from a parsed text by shuffles, key
\* toggles and answer keys, the label of an Answer row is one of the
\* uppercase letters A, B, C, D, E
C17_AnswerLabelsUppercase ==
  \A i \in 1..Len(rows) :
    rows[i].type = "answer" => rows[i].label \in {"A", "B", "C", "D", "E"}

\* answers typed in lower case have been parsed, shuffled and keyed, and a
\* question of six answers has been relettered
C17_Witness ==
  \/ /\ op = "applyKey"
     /\ \E i \in 1..Len(input) : input[i] \in {"a", "b"} /\ At(input, i + 1) \in {".", ")"}
     /\ \E i, j \in Answers(rows) : rows[i].id > rows[j].id /\ i < j
     /\ Keyed(rows) # {}
  \/ /\ op = "answers"
     /\ Cardinality(Answers(rows)) = 6
     /\ rows # before


KeyApplied == op = "applyKey"

\* the indexes of the Question rows before row i
QuestionsBefore(r, i) == {q \in 1..(i - 1) : r[q].type = "question"}

\* the letters keyMap lists for the last Question row before row i, none
\* when there is no such row or the map has no entry for its number
ListedLetters(r, i, keyMap) ==
  LET qs == QuestionsBefore(r, i)
      q == CHOOSE x \in qs : \A y \in qs : y <= x
      n == labelNumber(r[q].label)
  IN IF qs # {} /\ n \in DOMAIN keyMap
       THEN {keyMap[n][j] : j \in 1..Len(keyMap[n])}
       ELSE {}

\* C18: after applyAnswerKey(rows, keyMap) an Answer row is keyed exactly
\* when keyMap lists its label for the number of the last Question row
\* before it; marks made before the call are cleared and the answers of
\* questions absent from keyMap are unkeyed
C18_KeyedIffListed ==
  KeyApplied =>
    /\ Len(rows) = Len(before)
    /\ \A i \in 1..Len(rows) :
         /\ [rows[i] EXCEPT !.isKey = before[i].isKey] = before[i]
         /\ rows[i].type = "answer" =>
              (rows[i].isKey <=> rows[i].label \in ListedLetters(rows, i, answerKey))
         /\ rows[i].type # "answer" => rows[i].isKey = before[i].isKey

\* a key has been applied that marks one answer, clears a mark made before
\* and leaves a question it does not list without marks
C18_Witness ==
  /\ KeyApplied
  /\ \E i \in Answers(rows) : rows[i].isKey /\ ~before[i].isKey
  /\ \E i \in Answers(rows) : ~rows[i].isKey /\ before[i].isKey
  /\ \E q \in 1..Len(rows) :
       /\ rows[q].type = "question"
       /\ labelNumber(rows[q].label) \notin DOMAIN answerKey
       /\ q < Len(rows) /\ rows[q + 1].type = "answer"


\* C19: applyAnswerKey leaves the rows it was given as they were: after the
\* call the row objects that were passed in, which the store still holds as
\* parsedRows when the import view applies a key, have the key marks they
\* had before the call
C19_AppliedKeyLeavesInput ==
  KeyApplied =>
    /\ Len(argAfter) = Len(before)
    /\ \A i \in 1..Len(before) : argAfter[i].isKey = before[i].isKey


KeyParsed == op = "parseKey"

OtherLetters == {"F", "Q", "x"}

\* a line as C20 describes it: a decimal number, one or more of . ) : or
\* white space, then letters, commas and white space to the end of the
\* line; white space before the number is let pass
ShapedLine(line) ==
  LET i == SkipWs(line, 1)
      d == SkipSet(line, i, Digits)
      sepEnd == SkipSet(line, d, KeySeparators)
      tailChars == AnswerLetters \cup OtherLetters \cup {","} \cup WhiteSpace
  IN /\ d > i
     /\ sepEnd > d
     /\ \A k \in sepEnd..Len(line) : line[k] \in tailChars

\* the number of a shaped line
LineNumber(line) ==
  LET i == SkipWs(line, 1) IN parseInt(Sub(line, i, SkipSet(line, i, Digits)), 0)

\* the letters A to E of a shaped line, upper-cased, in order
LineLetters(line) ==
  LET d == SkipSet(line, SkipWs(line, 1), Digits)
      tail == Sub(line, d, Len(line) + 1)
  IN SelectSeq([k \in 1..Len(tail) |-> toUpperCase(tail[k])],
               LAMBDA c : c \in {"A", "B", "C", "D", "E"})

\* C20: parseAnswerKey gives every line made of a number, separators and a
\* tail of letters, commas and spaces the entry number -> the letters A to
\* E of the tail (the last such line of a number counting), and a line not
\* of this shape adds no entry
C20_KeyLinesRead ==
  KeyParsed =>
    LET lines == split(answerKeyInput, <<>>)
        shaped == {k \in 1..Len(lines) : ShapedLine(lines[k])}
    IN /\ \A n \in DOMAIN answerKey :
            \E k \in shaped : /\ LineNumber(lines[k]) = n
                              /\ LineLetters(lines[k]) = answerKey[n]
       /\ \A k \in shaped :
            LineLetters(lines[k]) # <<>> =>
              /\ LineNumber(lines[k]) \in DOMAIN answerKey
              /\ (\A j \in shaped : j > k => LineNumber(lines[j]) # LineNumber(lines[k]))
                   => answerKey[LineNumber(lines[k])] = LineLetters(lines[k])

(***************************************************************************)
(* The answer key lines.                                                   *)
(***************************************************************************)
Generated == op = "generateAnswerKey"

\* the index after the rows of the k-th question of r; k = 0 stands for the
\* rows before the first question
QuestionEnd(r, k) ==
  IF k < Len(QuestionIndexes(r)) THEN QuestionIndexes(r)[k + 1] ELSE Len(r) + 1

\* the labels of the keyed answers of the k-th question of r, in order
KeyedLabels(r, k) ==
  LET from == IF k = 0 THEN 1 ELSE QuestionIndexes(r)[k]
      keyed == Ascending({i \in from..(QuestionEnd(r, k) - 1) :
                            r[i].type = "answer" /\ r[i].isKey})
  IN [j \in 1..Len(keyed) |-> chars(r[keyed[j]].label)]

\* the integer a text of digits, with or without a minus sign, stands for
Signed(t) == IF At(t, 1) = "-" THEN 0 - parseInt(Tail(t), 0) ELSE parseInt(t, 0)

\* the position after the number a text starts with
NumberEnd(t) == SkipSet(t, IF At(t, 1) = "-" THEN 2 ELSE 1, Digits)

\* "<number>. <letters comma-joined>"
SummaryLine(number, ls) ==
  toString(number) \o <<".", " ">> \o join(ls, <<",", " ">>)

\* the summary lines of the questions numbered in Q, in order
SummaryLines(r, Q, startNumber) ==
  LET ks == Ascending(Q)
  IN [j \in 1..Len(ks) |->
        SummaryLine(startNumber + ks[j] - 1, KeyedLabels(r, ks[j]))]

\* C21 as stated: generateAnswerKey(rows, startNumber) returns one line per
\* Question row, in question order, the k-th being
\* "<startNumber + k - 1>. <labels of the keyed answers of the k-th question
\* joined by commas>".
C21_OneLinePerQuestion ==
  Generated =>
    previewKey = SummaryLines(rows, 1..Len(QuestionIndexes(rows)), examConfig.startNumber)

\* C21 amended: generateAnswerKey returns one line per Question row that
\* has at least one keyed answer, in question order, the line of the k-th
\* question being "<startNumber + k - 1>. <its keyed labels joined by ', '>";
\* a question without keyed answer has no line, and keyed answers that come
\* before the first Question row give a first line numbered startNumber - 1.
C21_OneLinePerKeyedQuestion ==
  Generated =>
    previewKey =
      SummaryLines(rows,
                   {k \in 0..Len(QuestionIndexes(rows)) : KeyedLabels(rows, k) # <<>>},
                   examConfig.startNumber)

\* a key of two lines made from three questions, the second without key
C21_Witness ==
  /\ Generated
  /\ Len(QuestionIndexes(rows)) = 3
  /\ Len(previewKey) = 2
  /\ KeyedLabels(rows, 2) = <<>>
  /\ examConfig.startNumber = 99

(***************************************************************************)
(* C22: findQuestionsWithoutKeys returns, in document order, the integer   *)
(* label of every Question row that has no keyed Answer row between it and *)
(* the next Question row or the end of the rows, the last question         *)
(* included, and of no Question row that has a keyed answer.               *)
(***************************************************************************)
C22_UnkeyedQuestionsListed ==
  op = "findQuestionsWithoutKeys" =>
    LET unkeyed == Ascending({k \in 1..Len(QuestionIndexes(rows)) :
                                KeyedLabels(rows, k) = <<>>})
    IN questionsWithoutKeys =
         [j \in 1..Len(unkeyed) |->
            Signed(chars(rows[QuestionIndexes(rows)[unkeyed[j]]].label))]

\* the last of three questions is reported with the first, the second has
\* a key, and a keyed answer stands before the first question
C22_Witness ==
  /\ op = "findQuestionsWithoutKeys"
  /\ Len(QuestionIndexes(rows)) = 3
  /\ questionsWithoutKeys = <<99, 101>>
  /\ KeyedLabels(rows, 0) # <<>>

(***************************************************************************)
(* The exam text, read back line by line.                                  *)
(***************************************************************************)
\* t starts with the text p
StartsWith(t, p) == Len(t) >= Len(p) /\ SubSeq(t, 1, Len(p)) = p

\* the prefix and postfix the exam is written with
QuestionPrefixOf(format) ==
  IF Len(format.questionPrefix) = 0 THEN <<>> ELSE format.questionPrefix[1]

QuestionPostfixOf(format) ==
  IF Len(format.questionPostfix) = 0 \/ format.questionPostfix[1] = <<>>
    THEN <<")", " ">> ELSE format.questionPostfix[1]

\* a line of the exam that is a question line: the question prefix, then a
\* number (section titles and answer letters of the model are not digits)
IsQuestionLine(line, format) ==
  /\ StartsWith(line, QuestionPrefixOf(format))
  /\ At(line, Len(QuestionPrefixOf(format)) + 1) \in Digits \cup {"-"}

\* the question lines of an exam text, in order
QuestionLines(text, format) ==
  LET lines == split(text, <<>>)
      at == Ascending({i \in 1..Len(lines) : IsQuestionLine(lines[i], format)})
  IN [k \in 1..Len(at) |-> lines[at[k]]]

\* every Answer row of r comes after some Question row
AnswersFollowQuestions(r) ==
  \A i \in 1..Len(r) :
    r[i].type = "answer" => \E q \in 1..(i - 1) : r[q].type = "question"

\* the number a key line starts with and what follows ". "
KeyLineNumber(line) == Signed(Sub(line, 1, NumberEnd(line)))

KeyLineRest(line) == Sub(line, NumberEnd(line) + 2, Len(line) + 1)

(***************************************************************************)
(* C29: for rows in which every Answer row comes after some Question row,  *)
(* and every start number, the k-th Question row is written in the exam    *)
(* text with the number startNumber + k - 1 whatever its stored label, and *)
(* each line "<n>. <letters>" of the answer key has for n the number of    *)
(* the question whose keyed answers carry exactly those labels, the lines  *)
(* following the order of the questions.                                   *)
(***************************************************************************)
C29_NumbersAgree ==
  AnswersFollowQuestions(rows) =>
    /\ op = "generateExamOutput" =>
         QuestionLines(previewOutput, examConfig.format) =
           [k \in 1..Len(QuestionIndexes(rows)) |->
              QuestionPrefixOf(examConfig.format)
                \o toString(examConfig.startNumber + k - 1)
                \o QuestionPostfixOf(examConfig.format)
                \o chars(rows[QuestionIndexes(rows)[k]].text)]
    /\ Generated =>
         /\ \A j \in 1..Len(previewKey) :
              LET k == KeyLineNumber(previewKey[j]) - examConfig.startNumber + 1
              IN /\ At(previewKey[j], NumberEnd(previewKey[j]) - 1) \in Digits
                 /\ Sub(previewKey[j], NumberEnd(previewKey[j]),
                        NumberEnd(previewKey[j]) + 2) = <<".", " ">>
                 /\ k \in 1..Len(QuestionIndexes(rows))
                 /\ KeyLineRest(previewKey[j]) = join(KeyedLabels(rows, k), <<",", " ">>)
                 /\ KeyedLabels(rows, k) # <<>>
         /\ \A i, j \in 1..Len(previewKey) :
              i < j => KeyLineNumber(previewKey[i]) < KeyLineNumber(previewKey[j])

\* an exam whose second question, stored as "2", is written as number 4
C29_Witness ==
  /\ op = "generateExamOutput"
  /\ AnswersFollowQuestions(rows)
  /\ examConfig.startNumber = 3
  /\ Len(QuestionIndexes(rows)) = 2
  /\ rows[QuestionIndexes(rows)[2]].label = "2"
  /\ \E a \in 1..Len(rows) : rows[a].type = "answer"
  /\ StartsWith(QuestionLines(previewOutput, examConfig.format)[2], <<"(", "4", ")">>)

(***************************************************************************)
(* The answer key round trip.                                              *)
(***************************************************************************)
Reapplied == op = "reapplyAnswerKey"

\* the Question rows of r are labelled startNumber, startNumber + 1, ...
LabelsCountFrom(r, startNumber) ==
  \A k \in 1..Len(QuestionIndexes(r)) :
    chars(r[QuestionIndexes(r)[k]].label) = toString(startNumber + k - 1)

\* the Answer rows of each question of r carry distinct letters A-E
DistinctLetters(r) ==
  \A i, j \in 1..Len(r) :
    (r[i].type = "answer" /\ r[j].type = "answer" /\ i < j
       /\ \A q \in (i + 1)..j : r[q].type # "question") =>
      /\ r[i].label \in {"A", "B", "C", "D", "E"}
      /\ r[j].label \in {"A", "B", "C", "D", "E"}
      /\ r[i].label # r[j].label

SameKeys(r, s) ==
  /\ Len(r) = Len(s)
  /\ \A i \in 1..Len(r) : r[i].isKey = s[i].isKey

\* C30 as stated: for rows whose Question labels are startNumber,
\* startNumber + 1, ... and whose Answer labels are distinct letters A-E
\* within each question, parsing the lines of generateAnswerKey joined by
\* line feeds and applying the result leaves isKey of every row as it was.
C30_RoundTrip ==
  (Reapplied /\ LabelsCountFrom(before, examConfig.startNumber)
             /\ DistinctLetters(before)) =>
    SameKeys(rows, before)

\* C30 amended: the same round trip leaves isKey of every row as it was
\* when, moreover, the start number is not negative and every Answer row
\* comes after some Question row.
C30_RoundTripAfterQuestions ==
  (Reapplied /\ LabelsCountFrom(before, examConfig.startNumber)
             /\ DistinctLetters(before)
             /\ examConfig.startNumber >= 0
             /\ AnswersFollowQuestions(before)) =>
    SameKeys(rows, before)

\* two keyed answers of question 100 and a question without key come back
\* as they were
C30_Witness ==
  /\ Reapplied
  /\ LabelsCountFrom(before, examConfig.startNumber)
  /\ AnswersFollowQuestions(before)
  /\ examConfig.startNumber = 99
  /\ answerKey = (100 :> <<"A", "B">>)
  /\ Len(QuestionIndexes(before)) = 2
  /\ \E i \in 1..Len(rows) : rows[i].isKey
  /\ SameKeys(rows, before)

(***************************************************************************)
(* C23: for locked indexes that are distinct and within the array, and     *)
(* whatever the random draws, shuffleArray leaves a permutation of the     *)
(* array (same length, every element as many times as before) in which     *)
(* the element at every locked index is the one that was there.            *)
(***************************************************************************)
DistinctInRange(indexes, array) ==
  /\ \A k \in 1..Len(indexes) : indexes[k] \in 1..Len(array)
  /\ \A j, k \in 1..Len(indexes) : j # k => indexes[j] # indexes[k]

Occurrences(array, v) == Cardinality({i \in 1..Len(array) : array[i] = v})

C23_LockedStayRestPermuted ==
  (op = "shuffleArray" /\ DistinctInRange(lockedAt, before)) =>
    /\ Len(rows) = Len(before)
    /\ \A v \in 1..MaxArr : Occurrences(rows, v) = Occurrences(before, v)
    /\ \A k \in 1..Len(lockedAt) :
         rows[lockedAt[k]] = before[lockedAt[k]]

\* the third and the first element locked, given in that order, and the
\* other two exchanged
C23_Witness ==
  /\ op = "shuffleArray"
  /\ before = <<1, 2, 3, 4>>
  /\ lockedAt = <<3, 1>>
  /\ rows = <<1, 4, 3, 2>>

(***************************************************************************)
(* C24: when validateParsedMcq reports rows valid whose labels are S,      *)
(* decimal numbers, A-E or empty, every row with a numeric label is        *)
(* followed at once by rows labelled A, B and then possibly C, D, E in     *)
(* that order (two to five answers), the run being followed by a row with  *)
(* the empty label or by the end of the rows; and every row labelled S is  *)
(* the first row or comes after a row with the empty label, and is         *)
(* followed by a row with the empty label and then a numeric row.          *)
(***************************************************************************)
LabelOf(r, i) == IF i \in 1..Len(r) THEN r[i].label ELSE "none"

\* the rows after row i of r are labelled A, B, ... up to the m-th letter
\* and the row after them has the empty label or is past the end
RunOfAnswers(r, i, m) ==
  /\ i + m <= Len(r)
  /\ \A j \in 1..m : r[i + j].label = letters[j]
  /\ i + m = Len(r) \/ r[i + m + 1].label = ""

WellFormed(r) ==
  \A i \in 1..Len(r) :
    /\ isNum(r[i].label) => \E m \in 2..5 : RunOfAnswers(r, i, m)
    /\ r[i].label = "S" =>
         /\ i = 1 \/ r[i - 1].label = ""
         /\ LabelOf(r, i + 1) = ""
         /\ isNum(LabelOf(r, i + 2))

C24_ValidRowsWellFormed ==
  (Validated /\ vres.isValid) => WellFormed(before)

\* a header, a question of three answers and, after an empty row, a
\* question of five answers that ends the rows
C24_Witness ==
  /\ Validated
  /\ vres.isValid
  /\ [i \in 1..Len(before) |-> before[i].label] =
       <<"S", "", "12", "A", "B", "C", "", "2", "A", "B", "C", "D", "E">>

(***************************************************************************)
(* C25: shuffleQuestions and shuffleAnswers return exactly the rows of     *)
(* their input: the ids of the result are the ids of the input, each       *)
(* exactly once, no row dropped and none repeated.                         *)
(***************************************************************************)
IdCount(r, id) == Cardinality({i \in 1..Len(r) : r[i].id = id})

C25_EachRowExactlyOnce ==
  op \in {"questions", "answers"} =>
    /\ Len(rows) = Len(before)
    /\ \A i \in 1..Len(before) : IdCount(rows, before[i].id) = IdCount(before, before[i].id)

(***************************************************************************)
(* Validity under the shuffles of the generate view.                       *)
(***************************************************************************)
\* every Empty row of r directly follows an Answer row or a Section row,
\* and the last row of r is an Empty row: blocks closed as parseMcq closes
\* them
BlocksClosed(r) ==
  /\ Len(r) > 0 => r[Len(r)].type = "empty"
  /\ \A i \in 1..Len(r) :
       r[i].type = "empty" => (i > 1 /\ r[i - 1].type \in {"answer", "section"})

\* C26 as stated: for every row sequence validateParsedMcq accepts, what
\* shuffleSections, shuffleQuestions and shuffleAnswers return, whatever
\* the random draws, is accepted by validateParsedMcq too.
C26_ShuffleKeepsValid ==
  (Shuffled /\ Accepted(before)) => Accepted(shuffledRows)

\* on rows closed as parseMcq closes them the shuffles keep validity
ShuffleKeepsValidClosed ==
  (Shuffled /\ Accepted(before) /\ BlocksClosed(before)) => Accepted(shuffledRows)

(***************************************************************************)
(* C27: after any sequence of shuffles in the generate view and the        *)
(* opening of the answer sheet, the correct letters the sheet shows for    *)
(* each question number are the letters the answer key of the shuffled     *)
(* exam lists for that number (none where the key has no line), and every  *)
(* line of the key is the line of a question on the sheet.                 *)
(***************************************************************************)
\* what the key lists for question number n: the letters of its line as
\* written, nothing when no line has that number
KeyTextFor(key, n) ==
  LET at == {j \in 1..Len(key) : KeyLineNumber(key[j]) = n}
  IN IF at = {} THEN <<>> ELSE KeyLineRest(key[CHOOSE j \in at : TRUE])

C27_SheetMatchesKey ==
  currentView = "answer-sheet" =>
    LET sheet == questions(rows, examConfig)
    IN /\ \A k \in 1..Len(sheet) :
            join(sheet[k].correctAnswers, <<",", " ">>) =
              KeyTextFor(storeAnswerKey, sheet[k].number)
       /\ \A j \in 1..Len(storeAnswerKey) :
            \E k \in 1..Len(sheet) : sheet[k].number = KeyLineNumber(storeAnswerKey[j])

(***************************************************************************)
(* C28: after any sequence of setFormatSettings, setExamConfig, resetAll   *)
(* and the settings view's Reset to Defaults, the question and answer      *)
(* prefix, postfix and lowercase values of examConfig.format equal those   *)
(* of formatSettings.                                                      *)
(***************************************************************************)
FormatFields ==
  {"questionPrefix", "questionPostfix", "answerPrefix", "answerPostfix",
   "answerLowercase"}

C28_FormatInSync ==
  \A f \in FormatFields : examConfig.format[f] = formatSettings[f]


====
